---- MODULE Spec2Model ----
(***************************************************************************)
(* The configuration engine of trp-framework (@trp/config): the layered    *)
(* YAML loader and the single-file JSON5 loader, their deep merge, the     *)
(* environment overrides, the process-wide cache and the module scoper.    *)
(*                                                                         *)
(* Strings are sequences of one-character strings, so that splitting,      *)
(* underscore stripping, lower-casing and number parsing are computed.     *)
(* A JavaScript value is a record whose single distinguishing field names  *)
(* its type: undef, null, bool, num, str, arr (with the extra own          *)
(* properties an array object can carry) or obj (a function from keys to   *)
(* values).                                                                *)
(***************************************************************************)
EXTENDS Integers, Sequences, FiniteSets, TLC

VARIABLES variant, ancestors, fs, sysenv, penv, cachedConfig, returned, lastCall, heap, globalState, pools, conns, tasks

vars == <<variant, ancestors, fs, sysenv, penv, cachedConfig, returned, lastCall, heap, globalState, pools, conns, tasks>>

\* the db package before its first call: const globalState = {}, no pool
\* created, no connection handed out, no call in flight
NoGlobalState == [pool |-> 0, drizzleBySchema |-> <<>>]
DbIdle == globalState = NoGlobalState /\ pools = <<>> /\ conns = <<>> /\ tasks = <<>>

(***************************************************************************)
(* JavaScript values                                                       *)
(***************************************************************************)
Undef == [undef |-> TRUE]
Null == [null |-> TRUE]
Bool(b) == [bool |-> b]
Num(n) == [num |-> n]
Str(s) == [str |-> s]
Arr(s, p) == [arr |-> s, props |-> p]
Obj(f) == [obj |-> f]

EmptyObj == Obj(<<>>)

IsUndef(v) == "undef" \in DOMAIN v
IsNull(v) == "null" \in DOMAIN v
IsBool(v) == "bool" \in DOMAIN v
IsNum(v) == "num" \in DOMAIN v
IsStr(v) == "str" \in DOMAIN v
IsArr(v) == "arr" \in DOMAIN v

\* isObject(x): !!x && typeof x === 'object' && !Array.isArray(x)
isObject(x) == "obj" \in DOMAIN x

\* JavaScript truthiness (the values here hold no NaN)
Truthy(v) ==
  CASE IsUndef(v) -> FALSE
    [] IsNull(v) -> FALSE
    [] IsBool(v) -> v.bool
    [] IsNum(v) -> v.num # 0
    [] IsStr(v) -> v.str # <<>>
    [] OTHER -> TRUE

\* a ?? b
Nullish(v) == IsUndef(v) \/ IsNull(v)
Coalesce(a, b) == IF Nullish(a) THEN b ELSE a

Digits == <<"0", "1", "2", "3", "4", "5", "6", "7", "8", "9">>

\* String(i) of a non-negative integer: the name of an array index property
RECURSIVE IntToChars(_)
IntToChars(i) ==
  IF i < 10 THEN <<Digits[i + 1]>>
  ELSE IntToChars(i \div 10) \o <<Digits[(i % 10) + 1]>>


\* o with property k set to v (o is the function of an obj)
Put(o, k, v) == [x \in (DOMAIN o) \cup {k} |-> IF x = k THEN v ELSE o[x]]

\* { ...v }: the own enumerable properties of v
Spread(v) ==
  CASE isObject(v) -> v.obj
    [] IsArr(v) ->
         [k \in {IntToChars(i - 1) : i \in 1..Len(v.arr)} \cup DOMAIN v.props |->
            IF k \in DOMAIN v.props THEN v.props[k]
            ELSE v.arr[(CHOOSE i \in 1..Len(v.arr) : IntToChars(i - 1) = k)]]
    [] IsStr(v) ->
         [k \in {IntToChars(i - 1) : i \in 1..Len(v.str)} |->
            Str(<<v.str[(CHOOSE i \in 1..Len(v.str) : IntToChars(i - 1) = k)]>>)]
    [] OTHER -> <<>>

\* v[k] for a value that is neither null nor undefined (own properties and
\* index properties; length and the prototype's methods are never asked for)
getOwn(own, k) == IF k \in DOMAIN own THEN own[k] ELSE Undef
Get(v, k) == getOwn(Spread(v), k)

(***************************************************************************)
(* deepMerge                                                               *)
(***************************************************************************)
\* a merge of one level only: a key of override replaces the key of base
deepMergeShallow(base, override) ==
  IF ~isObject(base) \/ ~isObject(override) THEN Coalesce(override, base)
  ELSE Obj([k \in (DOMAIN base.obj) \cup (DOMAIN override.obj) |->
              IF k \in DOMAIN override.obj THEN override.obj[k] ELSE base.obj[k]])

\* a merge that unites two sequences under the same key
RECURSIVE deepMergeConcat(_, _)
deepMergeConcat(base, override) ==
  IF ~isObject(base) \/ ~isObject(override) THEN Coalesce(override, base)
  ELSE Obj([k \in (DOMAIN base.obj) \cup (DOMAIN override.obj) |->
              IF k \notin DOMAIN override.obj THEN base.obj[k]
              ELSE IF k \notin DOMAIN base.obj THEN override.obj[k]
              ELSE IF isObject(base.obj[k]) /\ isObject(override.obj[k])
                   THEN deepMergeConcat(base.obj[k], override.obj[k])
              ELSE IF IsArr(base.obj[k]) /\ IsArr(override.obj[k])
                   THEN Arr(base.obj[k].arr \o override.obj[k].arr, override.obj[k].props)
              ELSE override.obj[k]])

\* a merge that only overrides the keys base already has
RECURSIVE deepMergeKnownKeys(_, _)
deepMergeKnownKeys(base, override) ==
  IF ~isObject(base) \/ ~isObject(override) THEN Coalesce(override, base)
  ELSE Obj([k \in DOMAIN base.obj |->
              IF k \notin DOMAIN override.obj THEN base.obj[k]
              ELSE IF isObject(base.obj[k]) /\ isObject(override.obj[k])
                   THEN deepMergeKnownKeys(base.obj[k], override.obj[k])
              ELSE override.obj[k]])

RECURSIVE deepMerge(_, _)
deepMerge(base, override) ==
  IF ~isObject(base) \/ ~isObject(override) THEN Coalesce(override, base)
  ELSE Obj([k \in (DOMAIN base.obj) \cup (DOMAIN override.obj) |->
              IF k \notin DOMAIN override.obj THEN base.obj[k]
              ELSE IF k \in DOMAIN base.obj
                      /\ isObject(base.obj[k]) /\ isObject(override.obj[k])
                   THEN deepMerge(base.obj[k], override.obj[k])
                   ELSE override.obj[k]])

(***************************************************************************)
(* Strings                                                                 *)
(***************************************************************************)
UpperLetters ==
  <<"A", "B", "C", "D", "E", "F", "G", "H", "I", "J", "K", "L", "M",
    "N", "O", "P", "Q", "R", "S", "T", "U", "V", "W", "X", "Y", "Z">>
LowerLetters ==
  <<"a", "b", "c", "d", "e", "f", "g", "h", "i", "j", "k", "l", "m",
    "n", "o", "p", "q", "r", "s", "t", "u", "v", "w", "x", "y", "z">>

LowerChar(c) ==
  IF \E i \in 1..26 : UpperLetters[i] = c
  THEN LowerLetters[CHOOSE i \in 1..26 : UpperLetters[i] = c]
  ELSE c

\* s.toLowerCase()
toLowerCase(s) == [i \in 1..Len(s) |-> LowerChar(s[i])]

\* s.startsWith(p), s.endsWith(p)
startsWith(s, p) == Len(s) >= Len(p) /\ SubSeq(s, 1, Len(p)) = p
endsWith(s, p) == Len(s) >= Len(p) /\ SubSeq(s, Len(s) - Len(p) + 1, Len(s)) = p

\* s.slice(n)
slice(s, n) == SubSeq(s, n + 1, Len(s))

\* s.split(sep) for a non-empty separator: leftmost, non-overlapping matches
RECURSIVE split(_, _)
split(s, sep) ==
  LET hits == {i \in 1..(Len(s) - Len(sep) + 1) : SubSeq(s, i, i + Len(sep) - 1) = sep}
  IN IF hits = {} THEN <<s>>
     ELSE LET i == CHOOSE h \in hits : \A g \in hits : h <= g
          IN <<SubSeq(s, 1, i - 1)>> \o split(SubSeq(s, i + Len(sep), Len(s)), sep)

\* s.replace(/_/g, '')
RECURSIVE stripUnderscores(_)
stripUnderscores(s) ==
  IF s = <<>> THEN <<>>
  ELSE (IF Head(s) = "_" THEN <<>> ELSE <<Head(s)>>) \o stripUnderscores(Tail(s))

\* s.trim(), the blank being the only white space of the alphabet used
RECURSIVE trim(_)
trim(s) ==
  IF s = <<>> THEN s
  ELSE IF Head(s) = " " THEN trim(Tail(s))
  ELSE IF s[Len(s)] = " " THEN trim(SubSeq(s, 1, Len(s) - 1))
  ELSE s

DigitValue(c) == (CHOOSE i \in 1..10 : Digits[i] = c) - 1
IsDigit(c) == \E i \in 1..10 : Digits[i] = c

RECURSIVE DigitsValue(_)
DigitsValue(s) ==
  IF s = <<>> THEN 0 ELSE DigitsValue(SubSeq(s, 1, Len(s) - 1)) * 10 + DigitValue(s[Len(s)])

\* an optionally signed run of digits, as <<n>>, or <<>> for NaN
signedDigits(neg, body) ==
  IF body # <<>> /\ \A i \in 1..Len(body) : IsDigit(body[i])
  THEN <<IF neg THEN 0 - DigitsValue(body) ELSE DigitsValue(body)>>
  ELSE <<>>

numberOfTrimmed(t) ==
  IF t = <<>> THEN <<0>>
  ELSE IF Head(t) \in {"-", "+"} THEN signedDigits(Head(t) = "-", Tail(t))
  ELSE signedDigits(FALSE, t)

\* Number(text) over the alphabet used here (no '.', exponent, hex or
\* Infinity spellings): white space is trimmed, the empty text is 0, an
\* optionally signed run of digits is its value, anything else is NaN.
\* The result is <<n>> for a number and <<>> for NaN.
Number(text) == numberOfTrimmed(trim(text))

\* an optional value is <<>> or <<v>>: a ?? b on options
OrElse(o, d) == IF o = <<>> THEN d ELSE o[1]

(***************************************************************************)
(* Names                                                                   *)
(***************************************************************************)
k_env == <<"e", "n", "v">>
k_node == <<"n", "o", "d", "e">>
k_modules == <<"m", "o", "d", "u", "l", "e", "s">>
k_db == <<"d", "b">>
k_mysql == <<"m", "y", "s", "q", "l">>
k_port == <<"p", "o", "r", "t">>
k_dev == <<"d", "e", "v">>
k_single == <<"s", "i", "n", "g", "l", "e">>
k_true == <<"t", "r", "u", "e">>
k_false == <<"f", "a", "l", "s", "e">>
x_yaml == <<".", "y", "a", "m", "l">>
x_yml == <<".", "y", "m", "l">>
x_json == <<".", "j", "s", "o", "n">>
x_json5 == <<".", "j", "s", "o", "n", "5">>
n_base == <<"b", "a", "s", "e">>
n_config == <<"c", "o", "n", "f", "i", "g">>
n_secrets == <<"s", "e", "c", "r", "e", "t", "s">>
k_featureFlags == <<"f", "e", "a", "t", "u", "r", "e", "F", "l", "a", "g", "s">>
k_playerSessionAudit == <<"p", "l", "a", "y", "e", "r", "S", "e", "s", "s", "i", "o", "n", "A", "u", "d", "i", "t">>
k_rbac == <<"r", "b", "a", "c">>
k_limits == <<"l", "i", "m", "i", "t", "s">>
k_maxCharactersPerPlayer == <<"m", "a", "x", "C", "h", "a", "r", "a", "c", "t", "e", "r", "s", "P", "e", "r", "P", "l", "a", "y", "e", "r">>
k_host == <<"h", "o", "s", "t">>
k_database == <<"d", "a", "t", "a", "b", "a", "s", "e">>
k_user == <<"u", "s", "e", "r">>
k_password == <<"p", "a", "s", "s", "w", "o", "r", "d">>
k_poolLimit == <<"p", "o", "o", "l", "L", "i", "m", "i", "t">>
k_trp_core == <<"t", "r", "p", "-", "c", "o", "r", "e">>
DefaultPrefix == <<"T", "R", "P", "_", "_">>
Separator == <<"_", "_">>

\* os.hostname()
HostName == <<"S", "V", "1">>

(***************************************************************************)
(* The file system                                                         *)
(*                                                                         *)
(* fs maps the paths it tracks to what is there; any other path is        *)
(* missing.  A path is [dir, sub, name]: the configuration directory, the  *)
(* subdirectory below it ("" for none) and the file name.  What is at a    *)
(* path: nothing, a directory, or a file that cannot be read, is blank,    *)
(* does not decode, or decodes to a value.                                 *)
(***************************************************************************)
Missing == [kind |-> "missing"]
Directory == [kind |-> "dir"]
Unreadable == [kind |-> "unreadable"]
Blank == [kind |-> "blank"]
Garbage == [kind |-> "garbage"]
Doc(v) == [kind |-> "doc", doc |-> v]

At(fsys, p) == IF p \in DOMAIN fsys THEN fsys[p] ELSE Missing

File(dir, sub, name) == [dir |-> dir, sub |-> sub, name |-> name]

\* fs.existsSync(p)
existsSync(fsys, p) == At(fsys, p).kind # "missing"

\* a decoder that makes a text of what it cannot decode
ReadAndDecodeLenient(fsys, p) ==
  LET c == At(fsys, p)
  IN CASE c.kind \in {"dir", "unreadable"} -> [throw |-> "EIO"]
       [] c.kind = "blank" -> [ok |-> Undef]
       [] c.kind = "garbage" -> [ok |-> Str(<<"?">>)]
       [] OTHER -> [ok |-> c.doc]

\* the body of the try block of tryReadFile / tryRead after the existence
\* check: readFileSync throws on a directory or an unreadable file, a blank
\* text returns undefined, the decoder throws on a text it cannot decode
ReadAndDecode(fsys, p) ==
  LET c == At(fsys, p)
  IN CASE c.kind \in {"dir", "unreadable"} -> [throw |-> "EIO"]
       [] c.kind = "blank" -> [ok |-> Undef]
       [] c.kind = "garbage" -> [throw |-> "SyntaxError"]
       [] OTHER -> [ok |-> c.doc]

\* try { ... } catch { return undefined }
CatchUndefined(r) == IF "throw" \in DOMAIN r THEN [ok |-> Undef] ELSE r

\* tryReadFile(file) of the layered loader
tryReadFile(fsys, p) ==
  IF ~existsSync(fsys, p) THEN [ok |-> Undef]
  ELSE CatchUndefined(ReadAndDecode(fsys, p))

\* tryRead(file) of the single-file loader; file is <<>> for the '' that
\* stands for "no candidate exists"
tryRead(fsys, file) ==
  IF file = <<>> THEN [ok |-> Undef]
  ELSE LET p == file[1]
           low == toLowerCase(p.name)
       IN IF ~(endsWith(low, x_json5) \/ endsWith(low, x_json)) THEN [ok |-> Undef]
          ELSE IF ~existsSync(fsys, p) THEN [ok |-> Undef]
          ELSE CatchUndefined(ReadAndDecode(fsys, p))

\* the bound of the upward search
SearchBound == 6

\* an upward search that also tries the seventh directory
findConfigDirInclusive(anc) ==
  LET tried == {i \in 1..Len(anc) : i <= SearchBound + 1}
      hits == {i \in tried : anc[i] = "dir"}
  IN IF hits = {} THEN <<>>
     ELSE <<[anc |-> (CHOOSE h \in hits : \A g \in hits : h <= g) - 1]>>

\* findConfigDir(process.cwd()): anc[i] is what is at the path 'config' in
\* the (i-1)-th ancestor of the working directory, the last being the root
findConfigDir(anc) ==
  LET tried == {i \in 1..Len(anc) : i <= SearchBound}
      hits == {i \in tried : anc[i] = "dir"}
  IN IF hits = {} THEN <<>>
     ELSE <<[anc |-> (CHOOSE h \in hits : \A g \in hits : h <= g) - 1]>>

(***************************************************************************)
(* Environment overrides                                                   *)
(***************************************************************************)
\* the leaf written for the text of a variable
coerceNumber(val, n) == IF n # <<>> THEN Num(n[1]) ELSE Str(val)
coerce(val) ==
  IF val = k_true THEN Bool(TRUE)
  ELSE IF val = k_false THEN Bool(FALSE)
  ELSE coerceNumber(val, Number(val))

\* the key of one path segment
segmentKey(part) == trim(stripUnderscores(part))

\* an intermediate segment that always starts from a fresh mapping
childMappingFresh(cur) == <<>>

\* cursor[key] && isObject(cursor[key]) ? cursor[key] : {}
childMapping(cur) == IF Truthy(cur) /\ isObject(cur) THEN cur.obj ELSE <<>>

\* the inner loop of applyEnvOverrides on the mapping o (cursor), for the
\* segments that are left
RECURSIVE writePath(_, _, _)
RECURSIVE writeAt(_, _, _, _)
writeAt(o, key, parts, val) ==
  IF Len(parts) = 1 THEN Put(o, key, coerce(val))
  ELSE Put(o, key, Obj(writePath(childMapping(getOwn(o, key)), Tail(parts), val)))
writePath(o, parts, val) == writeAt(o, segmentKey(Head(parts)), parts, val)

\* the entries of process.env that start with the prefix, as
\* [parts, val], in enumeration order
entryOf(e, prefix) ==
  [parts |-> split(slice(e.name, Len(prefix)), Separator), val |-> e.val]
RECURSIVE overrideEntries(_, _)
overrideEntries(env, prefix) ==
  IF env = <<>> THEN <<>>
  ELSE (IF startsWith(Head(env).name, prefix) THEN <<entryOf(Head(env), prefix)>> ELSE <<>>)
         \o overrideEntries(Tail(env), prefix)

\* the entries written from the last to the first: the earliest wins
RECURSIVE writeAllEarliestWins(_, _)
writeAllEarliestWins(o, entries) ==
  IF entries = <<>> THEN o
  ELSE writePath(writeAllEarliestWins(o, Tail(entries)), Head(entries).parts, Head(entries).val)

RECURSIVE writeAll(_, _)
writeAll(o, entries) ==
  IF entries = <<>> THEN o
  ELSE writeAll(writePath(o, Head(entries).parts, Head(entries).val), Tail(entries))

overrideWith(cfg, entries) ==
  IF entries = <<>> THEN cfg ELSE Obj(writeAll(Spread(cfg), entries))
applyEnvOverrides(cfg, prefix, env) == overrideWith(cfg, overrideEntries(env, prefix))

(***************************************************************************)
(* Composition                                                             *)
(***************************************************************************)
IsThrow(r) == "throw" \in DOMAIN r

\* the minimal seed
Seed(env, node) ==
  Obj((k_env :> Str(env)) @@ (k_node :> Str(node)) @@ (k_modules :> EmptyObj))

\* cfg.modules = v, in strict mode (the loaders are ES modules)
setModules(cfg, v) ==
  CASE isObject(cfg) -> [ok |-> Obj(Put(cfg.obj, k_modules, v))]
    [] IsArr(cfg) -> [ok |-> Arr(cfg.arr, Put(cfg.props, k_modules, v))]
    [] OTHER -> [throw |-> "TypeError"]

\* a module entry that is replaced by the data of the file
withModuleReplaced(mods, modName, data) == Obj(Put(Spread(mods), modName, data))

\* { ...mods, [modName]: deepMerge(mods[modName] ?? {}, data) }
withModule(mods, modName, data) ==
  Obj(Put(Spread(mods), modName, deepMerge(Coalesce(Get(mods, modName), EmptyObj), data)))

\* the data of a per-module file merged into the top level
mergeModuleTopLevel(cfg, modName, data) == [ok |-> deepMerge(cfg, data)]

\* the body of "if (data) { ... }" in the per-module loop
mergeModule(cfg, modName, data) ==
  setModules(cfg, withModule(Coalesce(Get(cfg, k_modules), EmptyObj), modName, data))

\* the test that lets a directory entry through
acceptedEntry(v, entry) ==
  IF v = "layered"
  THEN endsWith(entry, x_yaml) \/ endsWith(entry, x_yml) \/ endsWith(entry, x_json)
  ELSE endsWith(toLowerCase(entry), x_json5) \/ endsWith(toLowerCase(entry), x_json)

\* entry.replace(/\.(yaml|yml|json)$/i, '') and entry.replace(/\.(json5|json)$/i, '')
extensions(v) == IF v = "layered" THEN {x_yaml, x_yml, x_json} ELSE {x_json5, x_json}
withoutAny(entry, hit) ==
  IF hit = {} THEN entry ELSE SubSeq(entry, 1, Len(entry) - Len(CHOOSE e \in hit : TRUE))
moduleName(v, entry) ==
  withoutAny(entry, {e \in extensions(v) : endsWith(toLowerCase(entry), e)})

readModule(v, fsys, p) ==
  IF v = "layered" THEN tryReadFile(fsys, p) ELSE tryRead(fsys, <<p>>)

\* one iteration of the loop over the listing
entryStep(v, cfg, entry, data) ==
  IF acceptedEntry(v, entry) /\ Truthy(data)
  THEN mergeModule(cfg, moduleName(v, entry), data)
  ELSE [ok |-> cfg]

\* for (const entry of listing) { ... }: an outcome, the loop ending at
\* the first assignment that throws
RECURSIVE perModuleLoop(_, _, _, _, _)
RECURSIVE loopFrom(_, _, _, _, _)
loopFrom(v, step, dir, rest, fsys) ==
  IF IsThrow(step) THEN step ELSE perModuleLoop(v, step.ok, dir, rest, fsys)
perModuleLoop(v, cfg, dir, listing, fsys) ==
  IF listing = <<>> THEN [ok |-> cfg]
  ELSE loopFrom(v, entryStep(v, cfg, Head(listing),
                             readModule(v, fsys, File(dir, "modules", Head(listing))).ok),
                dir, Tail(listing), fsys)

\* the names in the modules directory of dir
entriesOf(fsys, dir) ==
  {p.name : p \in {q \in DOMAIN fsys :
                     q.dir = dir /\ q.sub = "modules" /\ fsys[q].kind # "missing"}}

\* the orders in which readdirSync may list a set of names
Orders(S) ==
  {o \in [1..Cardinality(S) -> S] : \A i, j \in 1..Cardinality(S) : o[i] = o[j] => i = j}

\* if (fs.existsSync(modulesDir)) for (... of fs.readdirSync(modulesDir)) ...
perModuleFiles(v, cfg, dir, listing, fsys) ==
  IF ~existsSync(fsys, File(dir, "", k_modules)) THEN [ok |-> cfg]
  ELSE IF At(fsys, File(dir, "", k_modules)).kind # "dir" THEN [throw |-> "ENOTDIR"]
  ELSE perModuleLoop(v, cfg, dir, listing, fsys)

(***************************************************************************)
(* The layered loader                                                      *)
(***************************************************************************)
\* a resolution context that asks the environment before the options
contextLayeredEnvFirst(opts, senv, anc) ==
  [env |-> toLowerCase(OrElse(senv.TRP_ENV, OrElse(opts.env, k_dev))),
   node |-> toLowerCase(OrElse(senv.TRP_NODE, OrElse(opts.node, HostName))),
   configDir |-> OrElse(senv.TRP_CONFIG_DIR,
                   OrElse(opts.configDir, OrElse(findConfigDir(anc), [anc |-> 0]))),
   prefix |-> OrElse(opts.envPrefix, DefaultPrefix)]

\* the resolution context of the layered loader
contextLayered(opts, senv, anc) ==
  [env |-> toLowerCase(OrElse(opts.env, OrElse(senv.TRP_ENV, k_dev))),
   node |-> toLowerCase(OrElse(opts.node, OrElse(senv.TRP_NODE, HostName))),
   configDir |-> OrElse(opts.configDir,
                   OrElse(senv.TRP_CONFIG_DIR, OrElse(findConfigDir(anc), [anc |-> 0]))),
   prefix |-> OrElse(opts.envPrefix, DefaultPrefix)]

\* the list of layered files
layerFiles(ctx) ==
  <<File(ctx.configDir, "", n_base \o x_yaml),
    File(ctx.configDir, "env", ctx.env \o x_yaml),
    File(ctx.configDir, "nodes", ctx.node \o x_yaml),
    File(ctx.configDir, "", k_modules \o x_yaml)>>

\* the reducer with the arguments of deepMerge exchanged: earlier layers win
mergeLayerEarlierWins(acc, data) == IF Truthy(data) THEN deepMerge(data, acc) ELSE acc

\* (acc, f) => data ? deepMerge(acc, data) : acc
mergeLayer(acc, data) == IF Truthy(data) THEN deepMerge(acc, data) ELSE acc

\* files.reduce((acc, f) => ..., base)
RECURSIVE reduceFiles(_, _, _)
reduceFiles(files, acc, fsys) ==
  IF files = <<>> THEN acc
  ELSE reduceFiles(Tail(files), mergeLayer(acc, tryReadFile(fsys, Head(files)).ok), fsys)

secretsLayered(ctx) == <<File(ctx.configDir, "", n_secrets \o x_yaml)>>

\* the overrides applied before the secrets are merged
afterModulesOverridesFirst(scoped, secretFiles, prefix, fsys, env) ==
  IF IsThrow(scoped) THEN scoped
  ELSE [ok |-> reduceFiles(secretFiles, applyEnvOverrides(scoped.ok, prefix, env), fsys)]

\* the secrets and the overrides, unless the per-module loop threw
afterModules(scoped, secretFiles, prefix, fsys, env) ==
  IF IsThrow(scoped) THEN scoped
  ELSE [ok |-> applyEnvOverrides(reduceFiles(secretFiles, scoped.ok, fsys), prefix, env)]

\* the secrets merged before the per-module files
composeLayeredSecretsFirst(ctx, files, listing, secretFiles, fsys, env) ==
  afterModules(perModuleFiles("layered",
                              reduceFiles(secretFiles,
                                          reduceFiles(files, Seed(ctx.env, ctx.node), fsys), fsys),
                              ctx.configDir, listing, fsys),
               <<>>, ctx.prefix, fsys, env)

\* the body of the layered loadConfig after the cache check, for a list of
\* layer files, a listing of the modules directory and a list of secrets
\* files (the code's list holds one)
composeLayered(ctx, files, listing, secretFiles, fsys, env) ==
  afterModules(perModuleFiles("layered", reduceFiles(files, Seed(ctx.env, ctx.node), fsys),
                              ctx.configDir, listing, fsys),
               secretFiles, ctx.prefix, fsys, env)

(***************************************************************************)
(* The single-file loader                                                  *)
(***************************************************************************)
contextSingle(opts, senv, anc) ==
  [configDir |-> OrElse(opts.configDir,
                   OrElse(senv.TRP_CONFIG_DIR, OrElse(findConfigDir(anc), [anc |-> 0]))),
   loadPerModuleFiles |-> opts.loadPerModuleFiles # <<FALSE>>,
   loadSecrets |-> opts.loadSecrets # <<FALSE>>]

\* candidates.find(fs.existsSync) ?? '', as an optional path
firstOf(candidates, hits) ==
  IF hits = {} THEN <<>> ELSE <<candidates[CHOOSE h \in hits : \A g \in hits : h <= g]>>
firstExisting(fsys, candidates) ==
  firstOf(candidates, {i \in 1..Len(candidates) : existsSync(fsys, candidates[i])})

baseCandidates(ctx) ==
  <<File(ctx.configDir, "", n_config \o x_json5), File(ctx.configDir, "", n_config \o x_json)>>

secretsCandidates(ctx) ==
  <<File(ctx.configDir, "", n_secrets \o x_json5), File(ctx.configDir, "", n_secrets \o x_json)>>

\* if (opts.loadPerModuleFiles !== false) ...
perModuleSingle(ctx, merged, listing, fsys) ==
  IF ctx.loadPerModuleFiles
  THEN perModuleFiles("single", merged, ctx.configDir, listing, fsys)
  ELSE [ok |-> merged]

\* if (opts.loadSecrets !== false) ..., unless the per-module loop threw
secretsSingle(scoped, load, secrets) ==
  IF IsThrow(scoped) THEN scoped
  ELSE IF load /\ Truthy(secrets) THEN [ok |-> deepMerge(scoped.ok, secrets)]
  ELSE scoped

\* the body of the single-file loadConfig after the cache check, for the
\* candidate lists of the base file and of the secrets file
composeSingle(ctx, baseFiles, listing, secretFiles, fsys) ==
  secretsSingle(
    perModuleSingle(ctx,
      deepMerge(Seed(k_single, toLowerCase(HostName)),
                Coalesce(tryRead(fsys, firstExisting(fsys, baseFiles)).ok, EmptyObj)),
      listing, fsys),
    ctx.loadSecrets,
    tryRead(fsys, firstExisting(fsys, secretFiles)).ok)

(***************************************************************************)
(* Schemas (zod 3: an object schema strips unknown keys, a default        *)
(* replaces undefined only and is itself parsed by the inner schema)       *)
(***************************************************************************)
ZodError(issues) == [throw |-> "ZodError", issues |-> issues]

\* z.boolean().default(true) at path
zBoolDefault(x, d, path) ==
  IF IsUndef(x) THEN [val |-> Bool(d), issues |-> {}]
  ELSE IF IsBool(x) THEN [val |-> x, issues |-> {}]
  ELSE [val |-> Undef, issues |-> {path}]

\* z.number().default(d) at path
zNumberDefault(x, d, path) ==
  IF IsUndef(x) THEN [val |-> Num(d), issues |-> {}]
  ELSE IF IsNum(x) THEN [val |-> x, issues |-> {}]
  ELSE [val |-> Undef, issues |-> {path}]

\* a number schema without the positivity test
zAnyIntDefault(x, d, path) ==
  IF IsUndef(x) THEN [val |-> Num(d), issues |-> {}]
  ELSE IF IsNum(x) THEN [val |-> x, issues |-> {}]
  ELSE [val |-> Undef, issues |-> {path}]

\* z.number().int().positive().default(d) at path (every number here is an integer)
zPositiveIntDefault(x, d, path) ==
  IF IsUndef(x) THEN [val |-> Num(d), issues |-> {}]
  ELSE IF IsNum(x) /\ x.num > 0 THEN [val |-> x, issues |-> {}]
  ELSE [val |-> Undef, issues |-> {path}]

\* z.string() at path
zString(x, path) ==
  IF IsStr(x) THEN [val |-> x, issues |-> {}] ELSE [val |-> Undef, issues |-> {path}]

\* .default({}) in front of an object schema
orEmpty(x) == IF IsUndef(x) THEN EmptyObj ELSE x

featureFlagsOf(a, b) ==
  [val |-> Obj((k_playerSessionAudit :> a.val) @@ (k_rbac :> b.val)),
   issues |-> a.issues \cup b.issues]

featureFlagsObject(y) ==
  IF ~isObject(y) THEN [val |-> Undef, issues |-> {<<k_featureFlags>>}]
  ELSE featureFlagsOf(
         zBoolDefault(Get(y, k_playerSessionAudit), TRUE, <<k_featureFlags, k_playerSessionAudit>>),
         zBoolDefault(Get(y, k_rbac), TRUE, <<k_featureFlags, k_rbac>>))

\* featureFlags of CoreConfigSchema
zFeatureFlags(x) == featureFlagsObject(orEmpty(x))

limitsOf(m) == [val |-> Obj(k_maxCharactersPerPlayer :> m.val), issues |-> m.issues]

limitsObject(y, d) ==
  IF ~isObject(y) THEN [val |-> Undef, issues |-> {<<k_limits>>}]
  ELSE limitsOf(zPositiveIntDefault(Get(y, k_maxCharactersPerPlayer), d,
                                    <<k_limits, k_maxCharactersPerPlayer>>))

\* limits with another default of maxCharactersPerPlayer
zLimitsDefaultFive(x) == limitsObject(orEmpty(x), 5)

\* limits of CoreConfigSchema
zLimits(x) == limitsObject(orEmpty(x), 3)

coreOf(f, l) ==
  IF f.issues \cup l.issues # {} THEN ZodError(f.issues \cup l.issues)
  ELSE [ok |-> Obj((k_featureFlags :> f.val) @@ (k_limits :> l.val))]

\* CoreConfigSchema.parse(v)
parseCoreConfig(v) ==
  IF ~isObject(v) THEN ZodError({<<>>})
  ELSE coreOf(zFeatureFlags(Get(v, k_featureFlags)), zLimits(Get(v, k_limits)))

dbIssues(h, po, d, u, pw, pl) ==
  h.issues \cup po.issues \cup d.issues \cup u.issues \cup pw.issues \cup pl.issues

dbOf(h, po, d, u, pw, pl) ==
  IF dbIssues(h, po, d, u, pw, pl) # {} THEN ZodError(dbIssues(h, po, d, u, pw, pl))
  ELSE [ok |-> Obj((k_host :> h.val) @@ (k_port :> po.val) @@ (k_database :> d.val)
                   @@ (k_user :> u.val) @@ (k_password :> pw.val)
                   @@ (k_poolLimit :> pl.val))]

\* DbConfigSchema.parse(v)
parseDbConfig(v) ==
  IF ~isObject(v) THEN ZodError({<<>>})
  ELSE dbOf(zString(Get(v, k_host), <<k_host>>),
            zNumberDefault(Get(v, k_port), 3306, <<k_port>>),
            zString(Get(v, k_database), <<k_database>>),
            zString(Get(v, k_user), <<k_user>>),
            zString(Get(v, k_password), <<k_password>>),
            zNumberDefault(Get(v, k_poolLimit), 30, <<k_poolLimit>>))

(***************************************************************************)
(* The cache and the public operations                                     *)
(***************************************************************************)
NoOptionsLayered == [configDir |-> <<>>, env |-> <<>>, node |-> <<>>, envPrefix |-> <<>>]
NoOptionsSingle == [configDir |-> <<>>, loadPerModuleFiles |-> <<>>, loadSecrets |-> <<>>]
NoOptions == IF variant = "layered" THEN NoOptionsLayered ELSE NoOptionsSingle

\* the configuration directory a call with opts resolves
configDirOf(opts) ==
  IF variant = "layered" THEN contextLayered(opts, sysenv, ancestors).configDir
  ELSE contextSingle(opts, sysenv, ancestors).configDir

\* the listings readdirSync may return to a call with opts (none is asked
\* for when the cache answers)
Listings(opts) ==
  IF \/ Truthy(cachedConfig)
     \/ At(fs, File(configDirOf(opts), "", k_modules)).kind # "dir"
     \/ (variant = "single" /\ opts.loadPerModuleFiles = <<FALSE>>)
  THEN {<<>>}
  ELSE Orders(entriesOf(fs, configDirOf(opts)))

resolveLayered(ctx, listing) ==
  composeLayered(ctx, layerFiles(ctx), listing, secretsLayered(ctx), fs, penv)

resolveSingle(ctx, listing) ==
  composeSingle(ctx, baseCandidates(ctx), listing, secretsCandidates(ctx), fs)

\* the body of loadConfig after "if (cachedConfig) return cachedConfig"
resolve(opts, listing) ==
  IF variant = "layered"
  THEN resolveLayered(contextLayered(opts, sysenv, ancestors), listing)
  ELSE resolveSingle(contextSingle(opts, sysenv, ancestors), listing)

\* cachedConfig = cfg; return cachedConfig (nothing is stored when the
\* resolution throws)
stored(r) == [out |-> r, cache |-> IF IsThrow(r) THEN cachedConfig ELSE r.ok, io |-> TRUE]

\* loadConfig(opts): what it returns or throws, what the cache slot holds
\* afterwards, and whether it touched the file system and the environment
loadConfig(opts, listing) ==
  IF Truthy(cachedConfig)
  THEN [out |-> [ok |-> cachedConfig], cache |-> cachedConfig, io |-> FALSE]
  ELSE stored(resolve(opts, listing))

\* the merge of configFor with its arguments exchanged: defaults win
mergedOfDefaultsWin(raw, d) ==
  IF Truthy(d) THEN deepMerge(Coalesce(raw, EmptyObj), d) ELSE Coalesce(raw, EmptyObj)

\* defaults ? deepMerge(defaults, raw ?? {}) : (raw ?? {})
mergedOf(raw, d) ==
  IF Truthy(d) THEN deepMerge(d, Coalesce(raw, EmptyObj)) ELSE Coalesce(raw, EmptyObj)

\* the value configFor hands to schema.parse
mergedFor(cfg, name, defaults) ==
  mergedOf(Coalesce(Get(Coalesce(Get(cfg, k_modules), EmptyObj), name), EmptyObj),
           OrElse(defaults, Undef))

\* db?.mysql
mysqlIn(db) == IF Nullish(db) THEN Undef ELSE Get(db, k_mysql)

\* getMySqlConfig's argument of DbConfigSchema.parse: cfg.db?.mysql ?? {}
mysqlOf(cfg) == Coalesce(mysqlIn(Get(cfg, k_db)), EmptyObj)

\* the options getMySqlConfig passes to loadConfig
PackageDir == [named |-> "pkg"]
mySqlOptions ==
  IF variant = "layered"
  THEN [configDir |-> <<PackageDir>>, env |-> <<>>, node |-> <<>>, envPrefix |-> <<>>]
  ELSE NoOptionsSingle

Call(op, c, out, opts, listing, name, defaults, validated) ==
  [op |-> op, io |-> c.io, loaded |-> c.out, out |-> out, opts |-> opts,
   listing |-> listing, name |-> name, defaults |-> defaults, validated |-> validated]

\* schema.parse(merged), with the value that was parsed
parsed(merged, out) == [out |-> out, validated |-> <<merged>>]

\* configFor after its call of loadConfig, which returned or threw c.out
configFor(c, name, defaults) ==
  IF IsThrow(c.out) THEN [out |-> c.out, validated |-> <<>>]
  ELSE parsed(mergedFor(c.out.ok, name, defaults),
              parseCoreConfig(mergedFor(c.out.ok, name, defaults)))

\* getMySqlConfig after its call of loadConfig
getMySqlConfig(c) ==
  IF IsThrow(c.out) THEN [out |-> c.out, validated |-> <<>>]
  ELSE parsed(mysqlOf(c.out.ok), parseDbConfig(mysqlOf(c.out.ok)))

(***************************************************************************)
(* Operations                                                              *)
(***************************************************************************)
OptDir == [named |-> "opt"]
n_QA == <<"Q", "A">>
n_qa == <<"q", "a">>
n_foo == <<"f", "o", "o">>
AppPrefix == <<"A", "P", "P", "_", "_">>

\* the options callers pass: none, or one of them set
LayeredOptions ==
  {NoOptionsLayered,
   [NoOptionsLayered EXCEPT !.configDir = <<OptDir>>],
   [NoOptionsLayered EXCEPT !.env = <<n_QA>>],
   [NoOptionsLayered EXCEPT !.envPrefix = <<AppPrefix>>]}

SingleOptions ==
  {NoOptionsSingle,
   [NoOptionsSingle EXCEPT !.configDir = <<OptDir>>],
   [NoOptionsSingle EXCEPT !.loadPerModuleFiles = <<FALSE>>],
   [NoOptionsSingle EXCEPT !.loadSecrets = <<FALSE>>]}

LoadOptions == IF variant = "layered" THEN LayeredOptions ELSE SingleOptions

Frame == UNCHANGED <<variant, ancestors, fs, sysenv, penv, heap, globalState, pools, conns, tasks>>

\* the effect of a public operation: the cache slot and the record of the call
Effects(op, c, r, opts, listing, name, defaults) ==
  /\ cachedConfig' = c.cache
  /\ returned' = (returned \/ ~IsThrow(c.out))
  /\ lastCall' = Call(op, c, r.out, opts, listing, name, defaults, r.validated)
  /\ Frame

loadConfigCall(c, opts, listing) ==
  Effects("loadConfig", c, [out |-> c.out, validated |-> <<>>], opts, listing, <<>>, <<>>)

configForCall(c, listing, name, defaults) ==
  Effects("configFor", c, configFor(c, name, defaults), NoOptions, listing, <<name>>, defaults)

getMySqlConfigCall(c, listing) ==
  Effects("getMySqlConfig", c, getMySqlConfig(c), mySqlOptions, listing, <<>>, <<>>)

\* a caller calls loadConfig(opts)
LoadConfig ==
  \E opts \in LoadOptions :
    \E listing \in Listings(opts) :
      loadConfigCall(loadConfig(opts, listing), opts, listing)

ModuleNames == {k_trp_core, n_foo}

DefaultsChoices ==
  {<<>>,
   <<Obj(k_limits :> Obj(k_maxCharactersPerPlayer :> Num(5)))>>,
   <<Obj((k_featureFlags :> Obj((k_rbac :> Bool(TRUE)) @@ (k_playerSessionAudit :> Bool(FALSE))))
         @@ (k_limits :> Num(4)))>>}

\* a module calls configFor(name, CoreConfigSchema, defaults)
ConfigFor ==
  \E name \in ModuleNames, defaults \in DefaultsChoices :
    \E listing \in Listings(NoOptions) :
      configForCall(loadConfig(NoOptions, listing), listing, name, defaults)

\* a caller calls getMySqlConfig()
GetMySqlConfig ==
  \E listing \in Listings(mySqlOptions) :
    getMySqlConfigCall(loadConfig(mySqlOptions, listing), listing)

(***************************************************************************)
(* Vocabulary of the properties                                            *)
(***************************************************************************)
\* the value at a key path through nested mappings, Undef where there is none
RECURSIVE Lookup(_, _)
Lookup(v, p) ==
  IF p = <<>> THEN v
  ELSE IF isObject(v) /\ Head(p) \in DOMAIN v.obj THEN Lookup(v.obj[Head(p)], Tail(p))
  ELSE Undef

\* every key path of a value, the empty path included
RECURSIVE PathsIn(_)
PathsIn(v) ==
  IF ~isObject(v) THEN {<<>>}
  ELSE {<<>>} \cup UNION {{<<k>> \o p : p \in PathsIn(v.obj[k])} : k \in DOMAIN v.obj}

ProperPrefixes(p) == {SubSeq(p, 1, n) : n \in 0..(Len(p) - 1)}

\* a layer sets the path p: it holds a value at p, or it holds a value that
\* is not a mapping at a proper prefix of p (which replaces all below it)
Sets(layer, p) ==
  \/ Lookup(layer, p) # Undef
  \/ \E q \in ProperPrefixes(p) : Lookup(layer, q) # Undef /\ ~isObject(Lookup(layer, q))

\* later layers win: at every key path the result is decided by the latest
\* layer that sets the path; it is that layer's value when the value is not
\* a mapping, a mapping when it is one, and absent when no layer sets it or
\* the latest one replaced an ancestor
LaterWins(layers, result) ==
  \A p \in PathsIn(result) \cup UNION {PathsIn(layers[i]) : i \in 1..Len(layers)} :
    LET setters == {i \in 1..Len(layers) : Sets(layers[i], p)}
        latest == CHOOSE i \in setters : \A j \in setters : j <= i
        v == Lookup(layers[latest], p)
    IN IF setters = {} THEN Lookup(result, p) = Undef
       ELSE IF isObject(v) THEN isObject(Lookup(result, p))
       ELSE Lookup(result, p) = v

NoCall ==
  [op |-> "none", io |-> FALSE, loaded |-> [ok |-> Undef], out |-> [ok |-> Undef],
   opts |-> <<>>, listing |-> <<>>, name |-> <<>>, defaults |-> <<>>, validated |-> <<>>]

NoSysEnv == [TRP_ENV |-> <<>>, TRP_NODE |-> <<>>, TRP_CONFIG_DIR |-> <<>>]

\* the working directory holds the configuration directory
D0 == [anc |-> 0]
CwdHasConfig == <<"dir", "none">>

k_a == <<"a">>
k_b == <<"b">>
k_x == <<"x">>
k_y == <<"y">>
k_z == <<"z">>
k_limit == <<"l", "i", "m", "i", "t">>
n_sv1 == <<"s", "v", "1">>

(***************************************************************************)
(* SpecFold: the fold of the layered files                                 *)
(***************************************************************************)
FoldBase ==
  {Missing, Blank,
   Doc(Obj((k_a :> Num(1)) @@ (k_b :> Obj(k_x :> Num(1))))),
   Doc(Obj(k_b :> Num(7))),
   Doc(Num(7))}
FoldTier ==
  {Missing,
   Doc(Obj(k_b :> Obj((k_x :> Num(2)) @@ (k_y :> Num(3))))),
   Doc(Obj(k_b :> Num(7))),
   Doc(Num(0)),
   Doc(Arr(<<Num(1)>>, <<>>))}
FoldTierQA == {Missing, Doc(Obj(k_b :> Obj(k_x :> Num(9))))}
FoldNode ==
  {Missing, Garbage,
   Doc(Obj(k_b :> Obj(k_y :> Num(4)))),
   Doc(Obj(k_b :> Null))}
FoldShared ==
  {Missing,
   Doc(Obj(k_modules :> Obj(n_foo :> Obj(k_limit :> Num(5))))),
   Doc(Obj((k_a :> Num(2)) @@ (k_b :> Obj(k_z :> Str(k_dev))) @@ (k_env :> Str(k_x))))}

FoldFs ==
  {(File(D0, "", n_base \o x_yaml) :> b) @@ (File(D0, "env", k_dev \o x_yaml) :> t)
     @@ (File(D0, "env", n_qa \o x_yaml) :> q) @@ (File(D0, "nodes", n_sv1 \o x_yaml) :> n)
     @@ (File(D0, "", k_modules \o x_yaml) :> sh) :
   b \in FoldBase, t \in FoldTier, q \in FoldTierQA, n \in FoldNode, sh \in FoldShared}

InitFold ==
  /\ variant = "layered"
  /\ ancestors = CwdHasConfig
  /\ fs \in FoldFs
  /\ sysenv = NoSysEnv
  /\ penv = <<>>
  /\ cachedConfig = Null
  /\ returned = FALSE
  /\ DbIdle
  /\ heap = <<>>
  /\ lastCall = NoCall

NextFold == LoadConfig

SpecFold == InitFold /\ [][NextFold]_vars

\* the call that resolved: it read the sources and returned a configuration
Resolved == lastCall.io /\ ~IsThrow(lastCall.loaded)

\* the data of the layers that the resolving call folded: the seed, then
\* what the reader returned for each listed file that it did not skip
RECURSIVE presentData(_)
presentData(files) ==
  IF files = <<>> THEN <<>>
  ELSE LET data == tryReadFile(fs, Head(files)).ok
       IN (IF Truthy(data) THEN <<data>> ELSE <<>>) \o presentData(Tail(files))

foldedLayers ==
  LET ctx == contextLayered(lastCall.opts, sysenv, ancestors)
  IN <<Seed(ctx.env, ctx.node)>> \o presentData(layerFiles(ctx))

\* C1: in the layered loader the seed and then the base, tier, node and
\* shared-modules files are folded in that order with later layers winning:
\* at every key path the composed value is the one of the latest layer that
\* sets the path, and a path no later layer sets keeps the earlier value
\* (no per-module file, secrets file or override variable exists here, so
\* what loadConfig returns is the result of the fold).
C1_LaterLayersWin ==
  (lastCall.op = "loadConfig" /\ Resolved) => LaterWins(foldedLayers, lastCall.out.ok)

\* base {a:1,b:{x:1}}, tier {b:{x:2,y:3}}, node {b:{y:4}} composed to b = {x:2,y:4}
C1_Witness ==
  /\ lastCall.op = "loadConfig" /\ Resolved
  /\ lastCall.opts = NoOptionsLayered
  /\ fs[File(D0, "", n_base \o x_yaml)] = Doc(Obj((k_a :> Num(1)) @@ (k_b :> Obj(k_x :> Num(1)))))
  /\ fs[File(D0, "env", k_dev \o x_yaml)] = Doc(Obj(k_b :> Obj((k_x :> Num(2)) @@ (k_y :> Num(3)))))
  /\ fs[File(D0, "nodes", n_sv1 \o x_yaml)] = Doc(Obj(k_b :> Obj(k_y :> Num(4))))
  /\ Lookup(lastCall.out.ok, <<k_b>>) = Obj((k_x :> Num(2)) @@ (k_y :> Num(4)))
  /\ Lookup(lastCall.out.ok, <<k_a>>) \in {Num(1), Num(2)}

(***************************************************************************)
(* Spec: the cache, the module scoper and a file system and environment    *)
(* that change between calls                                               *)
(***************************************************************************)
s_h == <<"h">>
s_d == <<"d">>
s_u == <<"u">>
s_p == <<"p">>

\* a configuration with a complete db.mysql and a configured trp-core
FullConfig ==
  Obj((k_db :> Obj(k_mysql :> Obj((k_host :> Str(s_h)) @@ (k_database :> Str(s_d))
                                   @@ (k_user :> Str(s_u)) @@ (k_password :> Str(s_p)))))
      @@ (k_modules :> Obj(k_trp_core :> Obj(k_limits :> Obj(k_maxCharactersPerPlayer :> Num(2))))))

ev_port == [name |-> DefaultPrefix \o k_db \o Separator \o k_mysql \o Separator \o k_port,
            val |-> <<"5", "4", "3", "2">>]

BaseFile(v) == File(D0, "", IF v = "layered" THEN n_base \o x_yaml ELSE n_config \o x_json5)
ModulesDir == File(D0, "", k_modules)
CoreFile(v) == File(D0, "modules", k_trp_core \o (IF v = "layered" THEN x_yaml ELSE x_json))

\* what an edit may leave at a tracked path
Choices(v, p) ==
  IF p = BaseFile(v)
  THEN {Missing, Doc(FullConfig)} \cup (IF v = "single" THEN {Doc(Num(0))} ELSE {})
  ELSE IF p = ModulesDir THEN {Missing, Directory, Blank}
  ELSE {Missing,
        Doc(Obj(k_featureFlags :> Obj(k_rbac :> Bool(FALSE)))),
        Doc(Obj(k_limits :> Obj(k_maxCharactersPerPlayer :> Num(0 - 1))))}

\* nothing exists below a path that is not a directory
WellFormed(fsys) ==
  \A p \in DOMAIN fsys :
    (p.sub = "modules" /\ fsys[p].kind # "missing") => At(fsys, File(p.dir, "", k_modules)).kind = "dir"

SpecPenv == {<<>>, <<ev_port>>}

SpecFs(v) ==
  {f \in {(BaseFile(v) :> b) @@ (ModulesDir :> m) @@ (CoreFile(v) :> c) :
            b \in Choices(v, BaseFile(v)), m \in Choices(v, ModulesDir),
            c \in Choices(v, CoreFile(v))} : WellFormed(f)}

Init ==
  /\ variant \in {"layered", "single"}
  /\ ancestors = CwdHasConfig
  /\ fs \in SpecFs(variant)
  /\ sysenv = NoSysEnv
  /\ penv \in SpecPenv
  /\ cachedConfig = Null
  /\ returned = FALSE
  /\ DbIdle
  /\ heap = <<>>
  /\ lastCall = NoCall

\* something outside the process rewrites, creates or removes a tracked path
WriteFile ==
  /\ \E p \in DOMAIN fs :
       \E c \in Choices(variant, p) \ {fs[p]} :
         /\ WellFormed([fs EXCEPT ![p] = c])
         /\ fs' = [fs EXCEPT ![p] = c]
  /\ UNCHANGED <<variant, ancestors, sysenv, penv, cachedConfig, returned, lastCall, heap, globalState, pools, conns, tasks>>

\* the process environment changes
SetEnv ==
  /\ penv' \in SpecPenv \ {penv}
  /\ UNCHANGED <<variant, ancestors, fs, sysenv, cachedConfig, returned, lastCall, heap, globalState, pools, conns, tasks>>

Next == LoadConfig \/ ConfigFor \/ GetMySqlConfig \/ WriteFile \/ SetEnv

Spec == Init /\ [][Next]_vars

\* C3: after loadConfig has returned once, every later call of loadConfig,
\* with any options and whatever was done to the files and the environment
\* in between, reads nothing and returns the stored value, which stays the
\* stored value.
C3_CacheStable ==
  [][(returned /\ LoadConfig) =>
       /\ ~lastCall'.io
       /\ lastCall'.out = [ok |-> cachedConfig]
       /\ cachedConfig' = cachedConfig]_vars

\* the errors of the file system
FilesystemErrors == {"ENOTDIR", "EIO", "SyntaxError"}

\* C8: no failure of the file system makes loadConfig raise, and the only
\* error a caller of configFor receives is a schema validation error.
C8_OnlyValidationErrors ==
  /\ IsThrow(lastCall.loaded) => lastCall.loaded.throw \notin FilesystemErrors
  /\ (lastCall.op = "configFor" /\ IsThrow(lastCall.out)) => lastCall.out.throw = "ZodError"

\* what the composed configuration holds for the module of the last call
resolvedModule == Lookup(lastCall.loaded.ok, <<k_modules>> \o lastCall.name)

\* the layers configFor merges: the defaults, when given, under the data
layersOfConfigFor ==
  (IF lastCall.defaults = <<>> THEN <<>> ELSE lastCall.defaults)
    \o <<IF resolvedModule = Undef THEN EmptyObj ELSE resolvedModule>>

\* C9: what configFor validates is the deep merge of the defaults (base)
\* with the resolved modules[moduleName] (override): at every key path the
\* resolved data sets, the validated value is the resolved one, and a
\* default shows only where the resolved data sets nothing.
C9_DefaultsLoseToResolved ==
  (lastCall.op = "configFor" /\ ~IsThrow(lastCall.loaded)) =>
    /\ lastCall.validated # <<>>
    /\ LaterWins(layersOfConfigFor, lastCall.validated[1])

\* defaults {featureFlags:{rbac:true,playerSessionAudit:false}, limits:4}
\* under the configured {limits:{maxCharactersPerPlayer:2}}
C9_Witness ==
  /\ lastCall.op = "configFor" /\ ~IsThrow(lastCall.loaded)
  /\ lastCall.name = <<k_trp_core>>
  /\ resolvedModule = Obj(k_limits :> Obj(k_maxCharactersPerPlayer :> Num(2)))
  /\ lastCall.defaults # <<>>
  /\ Lookup(lastCall.defaults[1], <<k_limits>>) = Num(4)
  /\ Lookup(lastCall.validated[1], <<k_limits, k_maxCharactersPerPlayer>>) = Num(2)
  /\ Lookup(lastCall.validated[1], <<k_featureFlags, k_playerSessionAudit>>) = Bool(FALSE)

\* the defaults of CoreConfigSchema
CoreDefaults ==
  Obj((k_featureFlags :> Obj((k_playerSessionAudit :> Bool(TRUE)) @@ (k_rbac :> Bool(TRUE))))
      @@ (k_limits :> Obj(k_maxCharactersPerPlayer :> Num(3))))

\* configFor was called without defaults for a module the composed
\* configuration does not hold
AbsentModule ==
  /\ lastCall.op = "configFor" /\ ~IsThrow(lastCall.loaded)
  /\ lastCall.defaults = <<>>
  /\ resolvedModule = Undef

\* C10: when modules[moduleName] is absent, configFor(moduleName, schema)
\* validates an empty mapping, does not fail, and returns the defaults of
\* the schema: featureFlags.playerSessionAudit = true, featureFlags.rbac =
\* true, limits.maxCharactersPerPlayer = 3.
C10_AbsentModuleGivesSchemaDefaults ==
  AbsentModule => (lastCall.validated = <<EmptyObj>> /\ lastCall.out = [ok |-> CoreDefaults])

\* a file configures trp-core, foo is asked for
C10_Witness ==
  /\ AbsentModule
  /\ lastCall.name = <<n_foo>>
  /\ Lookup(lastCall.loaded.ok, <<k_modules, k_trp_core>>) # Undef
  /\ lastCall.out = [ok |-> CoreDefaults]

(***************************************************************************)
(* SpecMerge: deepMerge on its own                                         *)
(***************************************************************************)
k_c == <<"c">>

\* the values that are merged: mappings with scalar, sequence, null and
\* nested members, and values that are not mappings
MergeValues ==
  {EmptyObj,
   Obj((k_a :> Num(1)) @@ (k_b :> Obj(k_x :> Num(1)))),
   Obj((k_b :> Obj((k_x :> Num(2)) @@ (k_y :> Num(3)))) @@ (k_c :> Bool(TRUE))),
   Obj((k_a :> Arr(<<Num(1), Num(2)>>, <<>>)) @@ (k_b :> Num(7))),
   Obj((k_a :> Arr(<<Num(3)>>, <<>>)) @@ (k_b :> Obj(k_y :> Null))),
   Obj(k_b :> Obj(k_x :> Obj(k_z :> Str(k_dev)))),
   Obj(k_b :> Obj((k_x :> Obj(k_y :> Num(0))) @@ (k_z :> Arr(<<>>, <<>>)))),
   Obj((k_a :> Str(k_x)) @@ (k_c :> Obj(k_a :> Num(1)))),
   Obj((k_a :> Null) @@ (k_c :> Obj(k_b :> Bool(FALSE)))),
   Arr(<<Num(1)>>, <<>>),
   Num(0), Null, Undef}

InitMerge ==
  /\ variant = "layered"
  /\ ancestors = CwdHasConfig
  /\ fs = <<>>
  /\ sysenv = NoSysEnv
  /\ penv = <<>>
  /\ cachedConfig = Null
  /\ returned = FALSE
  /\ DbIdle
  /\ heap = <<>>
  /\ lastCall \in {[op |-> "arguments", base |-> b, override |-> o] : b, o \in MergeValues}

\* deepMerge(base, override) is called
Merge ==
  /\ lastCall.op = "arguments"
  /\ lastCall' = [op |-> "deepMerge", base |-> lastCall.base, override |-> lastCall.override,
                  out |-> deepMerge(lastCall.base, lastCall.override)]
  /\ UNCHANGED <<variant, ancestors, fs, sysenv, penv, cachedConfig, returned, heap, globalState, pools, conns, tasks>>

NextMerge == Merge

SpecMerge == InitMerge /\ [][NextMerge]_vars

\* r is, key by key, what the rules give for the mappings b and o
RECURSIVE MergedByRules(_, _, _)
MergedByRules(b, o, r) ==
  /\ isObject(r)
  /\ DOMAIN r.obj = (DOMAIN b.obj) \cup (DOMAIN o.obj)
  /\ \A k \in DOMAIN r.obj :
       IF k \notin DOMAIN o.obj THEN r.obj[k] = b.obj[k]
       ELSE IF k \notin DOMAIN b.obj THEN r.obj[k] = o.obj[k]
       ELSE IF isObject(b.obj[k]) /\ isObject(o.obj[k])
            THEN MergedByRules(b.obj[k], o.obj[k], r.obj[k])
       ELSE r.obj[k] = o.obj[k]

\* C4: deepMerge of two mappings is a mapping in which a key only in base
\* keeps base's value, a key only in override has override's value, a key
\* in both whose values are both mappings has their recursive merge, and a
\* key in both where either value is not a mapping (a scalar or a
\* sequence) has exactly override's value.
C4_DeepMergeRules ==
  (lastCall.op = "deepMerge" /\ isObject(lastCall.base) /\ isObject(lastCall.override)) =>
    MergedByRules(lastCall.base, lastCall.override, lastCall.out)

\* {a:[1,2], b:7} under {a:[3], b:{y:null}}: the sequence is replaced, not
\* united, and the mapping replaces the scalar
C4_Witness ==
  /\ lastCall.op = "deepMerge"
  /\ lastCall.base = Obj((k_a :> Arr(<<Num(1), Num(2)>>, <<>>)) @@ (k_b :> Num(7)))
  /\ lastCall.override = Obj((k_a :> Arr(<<Num(3)>>, <<>>)) @@ (k_b :> Obj(k_y :> Null)))
  /\ lastCall.out = lastCall.override

(***************************************************************************)
(* SpecLoad: one resolution over the sources of both loaders               *)
(***************************************************************************)
MaxEnvVars == 2

k_k == <<"k">>
k_token == <<"t", "o", "k", "e", "n">>
t_7 == <<"7">>

\* base {db:{mysql:{port:3306}}, modules:{foo:{limit:1,k:1}}}
BaseTree ==
  Obj((k_db :> Obj(k_mysql :> Obj(k_port :> Num(3306))))
      @@ (k_modules :> Obj(n_foo :> Obj((k_limit :> Num(1)) @@ (k_k :> Num(1))))))

\* secrets {db:{mysql:{port:3307,password:"p"}}, modules:{foo:{limit:9}}}
SecretTree ==
  Obj((k_db :> Obj(k_mysql :> Obj((k_port :> Num(3307)) @@ (k_password :> Str(s_p)))))
      @@ (k_modules :> Obj(n_foo :> Obj(k_limit :> Num(9)))))

\* the variables of the process environment
ev_my_sql ==
  [name |-> DefaultPrefix \o k_db \o Separator \o <<"m", "y", "_", "s", "q", "l">>,
   val |-> k_true]
ev_app == [name |-> AppPrefix \o k_db \o Separator \o k_mysql \o Separator \o k_port,
           val |-> t_7]
EnvPool == {ev_port, ev_my_sql, ev_app}

\* process.env in its enumeration order: at most MaxEnvVars variables
EnvSeqs ==
  UNION {{e \in [1..n -> EnvPool] : \A i, j \in 1..n : e[i] = e[j] => i = j} : n \in 0..MaxEnvVars}

\* the sources of the layered loader
LoadFsLayered ==
  {f \in {(File(D0, "", n_base \o x_yaml) :> b) @@ (File(D0, "", k_modules \o x_yaml) :> sh)
            @@ (File(D0, "", k_modules) :> m)
            @@ (File(D0, "modules", n_foo \o x_yaml) :> m1)
            @@ (File(D0, "modules", n_foo \o x_json) :> m2)
            @@ (File(D0, "", n_secrets \o x_yaml) :> sec) :
          b \in {Missing, Garbage, Doc(BaseTree)},
          sh \in {Missing, Doc(Obj(k_modules :> Obj(n_foo :> Obj(k_limit :> Num(2))))),
                  Doc(Obj(k_modules :> Null))},
          m \in {Missing, Directory},
          m1 \in {Missing, Blank, Doc(Obj(k_limit :> Num(5))), Doc(Num(7))},
          m2 \in {Missing, Doc(Obj((k_limit :> Num(6)) @@ (k_z :> Num(1))))},
          sec \in {Missing, Unreadable, Doc(SecretTree), Doc(Obj(k_token :> Str(s_p)))}} :
     WellFormed(f)}

\* the sources of the single-file loader
LoadFsSingle ==
  {f \in {(File(D0, "", n_config \o x_json5) :> b) @@ (File(D0, "", n_config \o x_json) :> b2)
            @@ (File(D0, "", k_modules) :> m)
            @@ (File(D0, "modules", n_foo \o x_json) :> m1)
            @@ (File(D0, "modules", n_foo \o x_json5) :> m2)
            @@ (File(D0, "", n_secrets \o x_json5) :> sec) :
          b \in {Missing, Garbage, Doc(BaseTree)},
          b2 \in {Missing, Doc(Obj(k_a :> Num(2)))},
          m \in {Missing, Directory},
          m1 \in {Missing, Blank, Doc(Obj(k_limit :> Num(5))), Doc(Num(7))},
          m2 \in {Missing, Doc(Obj((k_limit :> Num(6)) @@ (k_z :> Num(1))))},
          sec \in {Missing, Unreadable, Doc(SecretTree), Doc(Obj(k_token :> Str(s_p)))}} :
     WellFormed(f)}

InitLoad ==
  /\ variant \in {"layered", "single"}
  /\ ancestors = CwdHasConfig
  /\ fs \in (IF variant = "layered" THEN LoadFsLayered ELSE LoadFsSingle)
  /\ sysenv = NoSysEnv
  /\ penv \in (IF variant = "layered" THEN EnvSeqs ELSE {<<>>})
  /\ cachedConfig = Null
  /\ returned = FALSE
  /\ DbIdle
  /\ heap = <<>>
  /\ lastCall = NoCall

NextLoad == LoadConfig

SpecLoad == InitLoad /\ [][NextLoad]_vars

\* the resolution context of the last call
ctxOfCall ==
  IF variant = "layered" THEN contextLayered(lastCall.opts, sysenv, ancestors)
  ELSE contextSingle(lastCall.opts, sysenv, ancestors)

\* the files of the file layers and of the secrets layer of the last call
filesOfCall == IF variant = "layered" THEN layerFiles(ctxOfCall) ELSE baseCandidates(ctxOfCall)
secretsOfCall ==
  IF variant = "layered" THEN secretsLayered(ctxOfCall) ELSE secretsCandidates(ctxOfCall)

\* what the last call would have composed from other lists of sources
composed(files, listing, secretFiles) ==
  IF variant = "layered"
  THEN composeLayered(ctxOfCall, files, listing, secretFiles, fs, penv)
  ELSE composeSingle(ctxOfCall, files, listing, secretFiles, fs)

RemoveAt(q, i) == SubSeq(q, 1, i - 1) \o SubSeq(q, i + 1, Len(q))

IsPrefix(a, b) == Len(a) <= Len(b) /\ SubSeq(b, 1, Len(a)) = a
Related(a, b) == IsPrefix(a, b) \/ IsPrefix(b, a)

\* the paths that end in a value that is not a mapping
Leaves(v) == {p \in PathsIn(v) : ~isObject(Lookup(v, p))}

\* the override variables of the last call: the positions in process.env
\* of the variables that carry the prefix, their segments as named and
\* their segments with underscores removed and blanks trimmed
Matching ==
  IF variant = "layered"
  THEN {i \in 1..Len(penv) : startsWith(penv[i].name, ctxOfCall.prefix)}
  ELSE {}
NamedPath(i) == split(slice(penv[i].name, Len(ctxOfCall.prefix)), Separator)
NormalisedPath(i) == [n \in 1..Len(NamedPath(i)) |-> segmentKey(NamedPath(i)[n])]

\* an override variable writes p, above p or below p
EnvTouches(p) == \E i \in Matching : Related(NormalisedPath(i), p)

\* the last call was a loadConfig that resolved and returned
Loaded == lastCall.op = "loadConfig" /\ Resolved

modulePath(n) == File(ctxOfCall.configDir, "modules", lastCall.listing[n])
moduleData(n) == readModule(variant, fs, modulePath(n)).ok
ModuleFiles ==
  {n \in 1..Len(lastCall.listing) :
     acceptedEntry(variant, lastCall.listing[n]) /\ Truthy(moduleData(n))}
moduleKey(n) == <<k_modules, moduleName(variant, lastCall.listing[n])>>

\* the data of the secrets file of the last call, Undef when the file is
\* not merged
secretsData ==
  IF variant = "layered" THEN tryReadFile(fs, secretsOfCall[1]).ok
  ELSE IF ctxOfCall.loadSecrets THEN tryRead(fs, firstExisting(fs, secretsOfCall)).ok
  ELSE Undef
SecretsMerged == Truthy(secretsData)
SecretsSet(p) == SecretsMerged /\ Sets(secretsData, p)

\* the paths at which two configurations are compared
PathsOf(a, b) == PathsIn(a) \cup PathsIn(b)

\* the composed configuration without the n-th entry of the listing
withoutEntry(n) == composed(filesOfCall, RemoveAt(lastCall.listing, n), secretsOfCall)

\* two configurations hold the same at every path that is not on the
\* line of the key path k (not k, not above it, not below it)
SameOutside(k, a, b) ==
  \A p \in PathsOf(a, b) : ~Related(k, p) => Lookup(a, p) = Lookup(b, p)

\* the n-th entry's values show in the configuration a, except where a
\* later file of the same module, the secrets file or an override variable
\* writes
ShowsModuleData(n, data, a) ==
  \A q \in Leaves(data) :
    \/ \E m \in ModuleFiles : m > n /\ moduleKey(m) = moduleKey(n) /\ Sets(moduleData(m), q)
    \/ SecretsSet(moduleKey(n) \o q)
    \/ EnvTouches(moduleKey(n) \o q)
    \/ Lookup(a, moduleKey(n) \o q) = Lookup(data, q)

\* C5: the content of a per-module file modules/<name>.<ext> goes into
\* modules[name] only.  Without the file the composed configuration is the
\* same at every path outside modules[name]; and at every path under
\* modules[name] where the file holds a value, the composed value is the
\* file's, whatever earlier layers put there (unless a later file of the
\* same module, the secrets file or an override variable writes it).
C5_PerModuleFileIsNamespaced ==
  Loaded =>
    \A n \in ModuleFiles :
      LET without == withoutEntry(n)
      IN /\ ~IsThrow(without)
         /\ SameOutside(moduleKey(n), lastCall.out.ok, without.ok)
         /\ ShowsModuleData(n, moduleData(n), lastCall.out.ok)

\* modules/foo.<ext> = {limit:5} over a base with modules.foo = {limit:1,k:1}
C5_Witness ==
  /\ Loaded
  /\ Len(lastCall.listing) = 1
  /\ ModuleFiles = {1}
  /\ moduleData(1) = Obj(k_limit :> Num(5))
  /\ Lookup(withoutEntry(1).ok, <<k_modules, n_foo>>) = Obj((k_limit :> Num(1)) @@ (k_k :> Num(1)))
  /\ Lookup(lastCall.out.ok, <<k_modules, n_foo>>) = Obj((k_limit :> Num(5)) @@ (k_k :> Num(1)))
  /\ Lookup(lastCall.out.ok, <<k_limit>>) = Undef

\* the composed configuration without the secrets file
withoutSecrets == composed(filesOfCall, lastCall.listing, <<>>)

\* the values of the secrets show in the configuration a, an override
\* variable that writes the path aside
ShowsSecrets(sec, a) ==
  \A q \in Leaves(sec) : EnvTouches(q) \/ Lookup(a, q) = Lookup(sec, q)

\* two configurations hold the same at every path the secrets do not set
SameWhereNotSet(sec, a, b) ==
  \A p \in PathsOf(a, b) : ~Sets(sec, p) => Lookup(a, p) = Lookup(b, p)

\* C6: the secrets file is merged into the top level after the per-module
\* files.  At every path where it holds a value (a top-level field, a db.*
\* field, a field under modules[name]) the composed value is the secrets
\* value, whatever the earlier file layers hold (an override variable that
\* writes the path aside); at every path it does not set, the composed
\* configuration is what it is without the secrets file.
C6_SecretsMergedLastAtTopLevel ==
  (Loaded /\ SecretsMerged) =>
    LET without == withoutSecrets
    IN /\ ShowsSecrets(secretsData, lastCall.out.ok)
       /\ ~IsThrow(without)
       /\ SameWhereNotSet(secretsData, lastCall.out.ok, without.ok)

\* secrets {db:{mysql:{port:3307,password}}, modules:{foo:{limit:9}}} over
\* base port 3306 and modules/foo = {limit:5}
C6_Witness ==
  /\ Loaded /\ SecretsMerged
  /\ secretsData = SecretTree
  /\ penv = <<>>
  /\ ModuleFiles # {}
  /\ \A n \in ModuleFiles : moduleData(n) = Obj(k_limit :> Num(5))
  /\ Lookup(withoutSecrets.ok, <<k_db, k_mysql, k_port>>) = Num(3306)
  /\ Lookup(withoutSecrets.ok, <<k_modules, n_foo, k_limit>>) = Num(5)
  /\ Lookup(lastCall.out.ok, <<k_db, k_mysql, k_port>>) = Num(3307)
  /\ Lookup(lastCall.out.ok, <<k_modules, n_foo, k_limit>>) = Num(9)
  /\ Lookup(lastCall.out.ok, <<k_modules, n_foo, k_k>>) = Num(1)

\* what is at a path reads as absent: nothing, an empty text, a text that
\* does not decode, or something that cannot be read
AbsentKinds == {"missing", "blank", "garbage", "unreadable", "dir"}
ReadsAbsent(p) == At(fs, p).kind \in AbsentKinds

\* the reader's answer for the source p of the last call
readSource(p) == IF variant = "layered" THEN tryReadFile(fs, p) ELSE tryRead(fs, <<p>>)

\* the file the single-file loader picks among candidates reads as absent,
\* or there is none to pick
PickReadsAbsent(candidates) ==
  firstExisting(fs, candidates) = <<>> \/ ReadsAbsent(firstExisting(fs, candidates)[1])

\* the layered list: each file that reads as absent
AbsentLayersAreNoOps ==
  \A n \in 1..Len(filesOfCall) :
    ReadsAbsent(filesOfCall[n]) =>
      /\ tryReadFile(fs, filesOfCall[n]) = [ok |-> Undef]
      /\ composed(RemoveAt(filesOfCall, n), lastCall.listing, secretsOfCall) = lastCall.out

\* the base layer of the single-file loader
AbsentBaseIsNoOp ==
  PickReadsAbsent(filesOfCall) =>
    /\ tryRead(fs, firstExisting(fs, filesOfCall)) = [ok |-> Undef]
    /\ composed(<<>>, lastCall.listing, secretsOfCall) = lastCall.out

\* each per-module file that reads as absent
AbsentModuleFilesAreNoOps ==
  \A n \in 1..Len(lastCall.listing) :
    ReadsAbsent(modulePath(n)) =>
      /\ readSource(modulePath(n)) = [ok |-> Undef]
      /\ withoutEntry(n) = lastCall.out

\* the secrets file
AbsentSecretsIsNoOp ==
  (IF variant = "layered" THEN ReadsAbsent(secretsOfCall[1]) ELSE PickReadsAbsent(secretsOfCall)) =>
    /\ (IF variant = "layered" THEN tryReadFile(fs, secretsOfCall[1])
        ELSE tryRead(fs, firstExisting(fs, secretsOfCall))) = [ok |-> Undef]
    /\ withoutSecrets = lastCall.out

\* no source gives anything: every file reads as absent and no override
\* variable carries the prefix
NoSourcePresent ==
  /\ IF variant = "layered" THEN \A n \in 1..Len(filesOfCall) : ReadsAbsent(filesOfCall[n])
     ELSE PickReadsAbsent(filesOfCall)
  /\ \A n \in 1..Len(lastCall.listing) : ReadsAbsent(modulePath(n))
  /\ IF variant = "layered" THEN ReadsAbsent(secretsOfCall[1]) ELSE PickReadsAbsent(secretsOfCall)
  /\ Matching = {}

\* the seed {env, node, modules:{}} of the last call
seedOfCall ==
  Obj((k_env :> Str(IF variant = "layered" THEN ctxOfCall.env ELSE k_single))
      @@ (k_node :> Str(IF variant = "layered" THEN ctxOfCall.node ELSE n_sv1))
      @@ (k_modules :> EmptyObj))

OffendingFields(v) ==
  IF ~isObject(v) THEN {<<>>}
  ELSE {p \in {<<k_featureFlags>>, <<k_limits>>} :
          Lookup(v, p) # Undef /\ ~isObject(Lookup(v, p))}
       \cup {p \in {<<k_featureFlags, k_playerSessionAudit>>, <<k_featureFlags, k_rbac>>} :
               Lookup(v, p) # Undef /\ ~IsBool(Lookup(v, p))}
       \cup {p \in {<<k_limits, k_maxCharactersPerPlayer>>} :
               /\ Lookup(v, p) # Undef
               /\ ~(IsNum(Lookup(v, p)) /\ Lookup(v, p).num > 0)}

\* configFor got a configuration and handed a value to the schema
Validated == lastCall.op = "configFor" /\ lastCall.validated # <<>>

\* C11: configFor fails with a validation error that names the offending
\* fields whenever the merged raw data of the module does not satisfy the
\* schema, and then returns no value; it returns a value when the data
\* satisfies the schema (limits.maxCharactersPerPlayer = -1 fails, naming
\* that field).
C11_ValidationErrorNamesField ==
  Validated =>
    IF OffendingFields(lastCall.validated[1]) = {}
    THEN ~IsThrow(lastCall.out)
    ELSE lastCall.out = ZodError(OffendingFields(lastCall.validated[1]))

\* modules/trp-core holds {limits:{maxCharactersPerPlayer:-1}}
C11_Witness ==
  /\ Validated
  /\ Lookup(lastCall.validated[1], <<k_limits, k_maxCharactersPerPlayer>>) = Num(0 - 1)
  /\ lastCall.out = ZodError({<<k_limits, k_maxCharactersPerPlayer>>})

(***************************************************************************)
(* SpecEnv: applyEnvOverrides on its own                                   *)
(***************************************************************************)
MaxOverrides == 2

t_abc == <<"a", "b", "c">>
t_padded == <<" ", "7", " ">>
t_True == <<"T", "r", "u", "e">>
t_minus1 == <<"-", "1">>

\* the override variables of the process environment
o_rbac == [name |-> DefaultPrefix \o k_featureFlags \o Separator \o k_rbac, val |-> k_false]
o_my_sql_port ==
  [name |-> DefaultPrefix \o k_db \o Separator \o <<"m", "y", "_", "s", "q", "l">>
              \o Separator \o k_port,
   val |-> t_7]
o_empty == [name |-> DefaultPrefix \o k_a, val |-> <<>>]
o_text == [name |-> DefaultPrefix \o k_a \o Separator \o k_b, val |-> t_abc]
o_mysql == [name |-> DefaultPrefix \o k_db \o Separator \o k_mysql, val |-> t_minus1]
o_true == [name |-> DefaultPrefix \o k_modules \o Separator \o n_foo \o Separator \o k_x,
           val |-> k_true]
o_padded == [name |-> DefaultPrefix \o k_z, val |-> t_padded]
o_True == [name |-> DefaultPrefix \o k_featureFlags \o Separator \o k_rbac, val |-> t_True]
other_var == [name |-> <<"P", "A", "T", "H">>, val |-> t_abc]
OverridePool ==
  {ev_port, o_rbac, o_my_sql_port, o_empty, o_text, o_mysql, o_true, o_padded, o_True, other_var}

\* process.env in its enumeration order: at most MaxOverrides variables,
\* no name twice
OverrideSeqs ==
  UNION {{e \in [1..n -> OverridePool] : \A i, j \in 1..n : e[i].name = e[j].name => i = j} :
           n \in 0..MaxOverrides}

\* the configurations the overrides are applied to
OverrideConfigs ==
  {EmptyObj,
   Obj((k_db :> Obj(k_mysql :> Obj((k_port :> Num(3306)) @@ (k_host :> Str(s_h)))))
       @@ (k_a :> Num(1))),
   Obj((k_db :> Null) @@ (k_featureFlags :> Arr(<<Num(1)>>, <<>>))
       @@ (k_modules :> Obj(n_foo :> Obj(k_limit :> Num(5))))),
   Obj((k_db :> Obj((k_mysql :> Num(5)) @@ (k_x :> Num(1))))
       @@ (k_a :> Obj((k_b :> Obj(k_c :> Num(1))) @@ (k_z :> Num(2))))
       @@ (k_featureFlags :> Obj((k_rbac :> Bool(TRUE)) @@ (k_playerSessionAudit :> Bool(TRUE))))),
   Num(7)}

InitEnv ==
  /\ variant = "layered"
  /\ ancestors = CwdHasConfig
  /\ fs = <<>>
  /\ sysenv = NoSysEnv
  /\ penv \in OverrideSeqs
  /\ cachedConfig = Null
  /\ returned = FALSE
  /\ DbIdle
  /\ heap = <<>>
  /\ lastCall \in {[op |-> "arguments", cfg |-> c, prefix |-> DefaultPrefix] :
                     c \in OverrideConfigs}

\* applyEnvOverrides(cfg, prefix) is called
ApplyEnvOverrides ==
  /\ lastCall.op = "arguments"
  /\ lastCall' = [op |-> "applyEnvOverrides", cfg |-> lastCall.cfg, prefix |-> lastCall.prefix,
                  out |-> applyEnvOverrides(lastCall.cfg, lastCall.prefix, penv)]
  /\ UNCHANGED <<variant, ancestors, fs, sysenv, penv, cachedConfig, returned, heap, globalState, pools, conns, tasks>>

NextEnv == ApplyEnvOverrides

SpecEnv == InitEnv /\ [][NextEnv]_vars

\* applyEnvOverrides has been applied
Applied == lastCall.op = "applyEnvOverrides"

\* the positions in process.env of the variables that carry the prefix, and
\* the key path each one writes
OverrideVars == {i \in 1..Len(penv) : startsWith(penv[i].name, lastCall.prefix)}
segmentsOf(i) == split(slice(penv[i].name, Len(lastCall.prefix)), Separator)
pathOf(i) == [n \in 1..Len(segmentsOf(i)) |-> segmentKey(segmentsOf(i)[n])]

\* no variable enumerated after the i-th writes its path, above it or below it
LastOnItsLine(i) == \A j \in OverrideVars : j > i => ~Related(pathOf(j), pathOf(i))

\* a text that parses fully as a number: with the blanks around it set
\* aside, an optionally signed, non-empty run of digits
numeralBody(t) == IF t # <<>> /\ Head(t) \in {"-", "+"} THEN Tail(t) ELSE t
IsNumeral(text) ==
  /\ numeralBody(trim(text)) # <<>>
  /\ \A n \in 1..Len(numeralBody(trim(text))) : IsDigit(numeralBody(trim(text))[n])
NumeralValue(text) ==
  IF Head(trim(text)) = "-" THEN 0 - DigitsValue(numeralBody(trim(text)))
  ELSE DigitsValue(numeralBody(trim(text)))

\* the leaf the priority order gives for the text of a variable
ExpectedLeaf(text) ==
  IF text = k_true THEN Bool(TRUE)
  ELSE IF text = k_false THEN Bool(FALSE)
  ELSE IF IsNumeral(text) THEN Num(NumeralValue(text))
  ELSE Str(text)

\* C13: the leaf written for a matching variable is the boolean when the
\* text is exactly "true" or "false", otherwise a number when the text
\* parses fully as a number, otherwise the text itself, unchanged.
C13_CoercionPriority ==
  Applied =>
    \A i \in OverrideVars :
      LastOnItsLine(i) => Lookup(lastCall.out, pathOf(i)) = ExpectedLeaf(penv[i].val)

\* the same, the empty and the blank text set aside
C13_ExceptBlankText ==
  Applied =>
    \A i \in OverrideVars :
      (LastOnItsLine(i) /\ trim(penv[i].val) # <<>>)
        => Lookup(lastCall.out, pathOf(i)) = ExpectedLeaf(penv[i].val)

\* the keys of the mapping at q that no variable writes, writes above or
\* writes below
UntouchedKeys(q, m) ==
  {k \in DOMAIN m.obj : \A j \in OverrideVars : ~Related(pathOf(j), q \o <<k>>)}

\* the keys of the mapping at q that some variable writes or writes below
WrittenKeys(q) ==
  {pathOf(j)[Len(q) + 1] : j \in {i \in OverrideVars : Len(pathOf(i)) > Len(q) /\ IsPrefix(q, pathOf(i))}}

\* the intermediate segment at q after the writes, given what was there
IntermediateAsRuled(q, before, after) ==
  /\ isObject(after)
  /\ IF isObject(before)
     THEN \A k \in UntouchedKeys(q, before) : Lookup(after, <<k>>) = before.obj[k]
     ELSE DOMAIN after.obj \subseteq WrittenKeys(q)

\* C14: when applyEnvOverrides writes at a path, every intermediate segment
\* ends as a mapping: one that was missing is created empty, one that was
\* a mapping keeps its other keys, and one that was something else (a
\* scalar, a sequence, null) is replaced by a fresh empty mapping, so that
\* it holds nothing but what the variables write.
C14_IntermediateSegments ==
  Applied =>
    \A i \in OverrideVars :
      LastOnItsLine(i) =>
        \A n \in 1..(Len(pathOf(i)) - 1) :
          IntermediateAsRuled(SubSeq(pathOf(i), 1, n),
                              Lookup(lastCall.cfg, SubSeq(pathOf(i), 1, n)),
                              Lookup(lastCall.out, SubSeq(pathOf(i), 1, n)))

\* a.b=abc over a = 1 and db.mysql.port=5432 over db.mysql = {port, host}
C14_Witness ==
  /\ Applied
  /\ penv = <<o_text, ev_port>>
  /\ Lookup(lastCall.cfg, <<k_a>>) = Num(1)
  /\ Lookup(lastCall.out, <<k_a>>) = Obj(k_b :> Str(t_abc))
  /\ Lookup(lastCall.cfg, <<k_db, k_mysql, k_host>>) = Str(s_h)
  /\ Lookup(lastCall.out, <<k_db, k_mysql>>) = Obj((k_port :> Num(5432)) @@ (k_host :> Str(s_h)))

\* the names of two variables differ only by underscores inside segments
SameButUnderscores(i, j) ==
  /\ penv[i].name # penv[j].name
  /\ Len(segmentsOf(i)) = Len(segmentsOf(j))
  /\ \A n \in 1..Len(segmentsOf(i)) :
       stripUnderscores(segmentsOf(i)[n]) = stripUnderscores(segmentsOf(j)[n])

\* C15: two matching variables whose names differ only by the underscores
\* inside a segment write the same key path, and the value there is the
\* one of the variable enumerated later.
C15_UnderscoreCollision ==
  Applied =>
    \A i, j \in OverrideVars :
      (i < j /\ SameButUnderscores(i, j)) =>
        /\ pathOf(i) = pathOf(j)
        /\ LastOnItsLine(j) => Lookup(lastCall.out, pathOf(j)) = ExpectedLeaf(penv[j].val)

\* TRP__db__mysql__port=5432, then TRP__db__my_sql__port=7
C15_Witness ==
  /\ Applied
  /\ penv = <<ev_port, o_my_sql_port>>
  /\ pathOf(1) = <<k_db, k_mysql, k_port>>
  /\ pathOf(2) = <<k_db, k_mysql, k_port>>
  /\ Lookup(lastCall.out, <<k_db, k_mysql, k_port>>) = Num(7)

(***************************************************************************)
(* More of deepMerge: overrides that are no mappings, idempotence          *)
(***************************************************************************)
\* C17: deepMerge(base, override) with an override that is not a mapping (a
\* scalar, a sequence or null) returns the override value, which replaces
\* the whole base value.
C17_NonMappingOverrideReplaces ==
  (lastCall.op = "deepMerge" /\ ~isObject(lastCall.override) /\ ~IsUndef(lastCall.override))
    => lastCall.out = lastCall.override

\* C19: deepMerge is idempotent: deepMerge(A, A) is structurally equal to A.
C19_Idempotent ==
  (lastCall.op = "deepMerge" /\ lastCall.base = lastCall.override) => lastCall.out = lastCall.base

\* A = {a:[1,2], b:7} merged with itself
C19_Witness ==
  /\ lastCall.op = "deepMerge"
  /\ lastCall.base = Obj((k_a :> Arr(<<Num(1), Num(2)>>, <<>>)) @@ (k_b :> Num(7)))
  /\ lastCall.override = lastCall.base
  /\ lastCall.out = lastCall.base

(***************************************************************************)
(* SpecAssoc: deepMerge of three trees, grouped to the left and to the     *)
(* right                                                                   *)
(***************************************************************************)
InitAssoc ==
  /\ variant = "layered"
  /\ ancestors = CwdHasConfig
  /\ fs = <<>>
  /\ sysenv = NoSysEnv
  /\ penv = <<>>
  /\ cachedConfig = Null
  /\ returned = FALSE
  /\ DbIdle
  /\ heap = <<>>
  /\ lastCall \in {[op |-> "trees", a |-> a, b |-> b, c |-> c] : a, b, c \in MergeValues}

\* deepMerge(deepMerge(A, B), C) and deepMerge(A, deepMerge(B, C)) are computed
MergeBothWays ==
  /\ lastCall.op = "trees"
  /\ lastCall' = [op |-> "merged", a |-> lastCall.a, b |-> lastCall.b, c |-> lastCall.c,
                  left |-> deepMerge(deepMerge(lastCall.a, lastCall.b), lastCall.c),
                  right |-> deepMerge(lastCall.a, deepMerge(lastCall.b, lastCall.c))]
  /\ UNCHANGED <<variant, ancestors, fs, sysenv, penv, cachedConfig, returned, heap, globalState, pools, conns, tasks>>

NextAssoc == MergeBothWays

SpecAssoc == InitAssoc /\ [][NextAssoc]_vars

\* no key path holds a mapping in one tree and a value that is no mapping
\* in another
ShapesAgree(trees) ==
  \A p \in UNION {PathsIn(trees[n]) : n \in 1..Len(trees)} :
    \A m, n \in 1..Len(trees) :
      (Lookup(trees[m], p) # Undef /\ Lookup(trees[n], p) # Undef)
        => (isObject(Lookup(trees[m], p)) <=> isObject(Lookup(trees[n], p)))

\* C18 as stated: deepMerge is associative for all trees, a key holding a
\* mapping in one tree and a value that is no mapping in another included.
C18_Associative ==
  lastCall.op = "merged" => lastCall.left = lastCall.right

\* C18: deepMerge is associative over trees whose shapes agree: when no key
\* path holds a mapping in one of A, B, C and a value that is no mapping in
\* another, deepMerge(deepMerge(A,B),C) equals deepMerge(A,deepMerge(B,C)).
C18_AssociativeWhenShapesAgree ==
  (lastCall.op = "merged" /\ ShapesAgree(<<lastCall.a, lastCall.b, lastCall.c>>))
    => lastCall.left = lastCall.right

\* A = {a:1,b:{x:1}}, B = {b:{x:2,y:3},c:true}, C = A: the shapes agree and
\* the nested keys overlap
C18_Witness ==
  /\ lastCall.op = "merged"
  /\ lastCall.a = Obj((k_a :> Num(1)) @@ (k_b :> Obj(k_x :> Num(1))))
  /\ lastCall.b = Obj((k_b :> Obj((k_x :> Num(2)) @@ (k_y :> Num(3)))) @@ (k_c :> Bool(TRUE)))
  /\ lastCall.c = lastCall.a
  /\ ShapesAgree(<<lastCall.a, lastCall.b, lastCall.c>>)
  /\ lastCall.left = Obj((k_a :> Num(1)) @@ (k_b :> Obj((k_x :> Num(1)) @@ (k_y :> Num(3))))
                         @@ (k_c :> Bool(TRUE)))
  /\ lastCall.right = lastCall.left

(***************************************************************************)
(* SpecFind: the upward search for the config directory                    *)
(***************************************************************************)
\* the longest chain of directories from start up to the root
MaxAncestors == 9

\* what is at 'config' in start, its parent, ... up to the root
Chains == UNION {[1..n -> {"dir", "file", "none"}] : n \in 1..MaxAncestors}

InitFind ==
  /\ variant = "layered"
  /\ ancestors \in Chains
  /\ fs = <<>>
  /\ sysenv = NoSysEnv
  /\ penv = <<>>
  /\ cachedConfig = Null
  /\ returned = FALSE
  /\ DbIdle
  /\ heap = <<>>
  /\ lastCall = NoCall

Find ==
  /\ lastCall = NoCall
  /\ lastCall' = [op |-> "findConfigDir", out |-> findConfigDir(ancestors)]
  /\ UNCHANGED <<variant, ancestors, fs, sysenv, penv, cachedConfig, returned, heap, globalState, pools, conns, tasks>>

NextFind == Find

SpecFind == InitFind /\ [][NextFind]_vars

\* a directory named config exists d levels above start and nowhere else
ConfigOnlyAt(d) ==
  /\ d + 1 \in DOMAIN ancestors
  /\ \A i \in DOMAIN ancestors : ancestors[i] = "dir" <=> i = d + 1

\* the levels above start, none beyond the fifth, that hold a config directory
NearLevels == {d \in 0..5 : d + 1 \in DOMAIN ancestors /\ ancestors[d + 1] = "dir"}

\* C20: findConfigDir(start) walks upward from start and stops after six
\* directories or at the root: it returns the nearest config directory among
\* start and its first five ancestors, else nothing; a config directory only
\* 5 levels above start is found, one only 7 levels above is not.
C20_SearchBound ==
  lastCall.op = "findConfigDir" =>
    /\ ConfigOnlyAt(5) => lastCall.out = <<[anc |-> 5]>>
    /\ ConfigOnlyAt(7) => lastCall.out = <<>>
    /\ IF NearLevels = {} THEN lastCall.out = <<>>
       ELSE lastCall.out = <<[anc |-> CHOOSE d \in NearLevels : \A e \in NearLevels : d <= e]>>

C20_Witness ==
  /\ lastCall.op = "findConfigDir"
  /\ ConfigOnlyAt(5)
  /\ Len(ancestors) = 8
  /\ lastCall.out = <<[anc |-> 5]>>

\* the directory 7 levels above start is never returned
C20_SevenAboveIsMissed ==
  /\ lastCall.op = "findConfigDir"
  /\ ConfigOnlyAt(7)
  /\ lastCall.out = <<>>

(***************************************************************************)
(* The heap: mappings are objects with identity.  A cell is a value that   *)
(* is no mapping (sequences are never looked into by the loader) or a      *)
(* reference to an object; heap[r] gives the members of the object r.  A   *)
(* reference <<n, p>> names the object at the key path p of the n-th tree  *)
(* of objects created.                                                     *)
(***************************************************************************)
Ref(r) == [ref |-> r]
IsRef(c) == "ref" \in DOMAIN c

\* the number of the next tree of objects created
fresh(h) ==
  IF DOMAIN h = {} THEN 1
  ELSE (CHOOSE n \in {r[1] : r \in DOMAIN h} : \A r \in DOMAIN h : r[1] <= n) + 1

\* a new object with the given members: {...members}
new(h, members) == (<<fresh(h), <<>>>> :> members) @@ h

\* o[k] = c
store(h, r, k, c) == [h EXCEPT ![r] = (k :> c) @@ h[r]]

Made(h, c) == [heap |-> h, val |-> c]

\* the tree below a cell
RECURSIVE Content(_, _)
Content(h, c) ==
  IF IsRef(c) THEN Obj([k \in DOMAIN h[c.ref] |-> Content(h, h[c.ref][k])]) ELSE c

\* the objects below a cell
RECURSIVE Reach(_, _)
Reach(h, c) ==
  IF IsRef(c) THEN {c.ref} \cup UNION {Reach(h, h[c.ref][k]) : k \in DOMAIN h[c.ref]} ELSE {}

\* the cell that holds the value at the key path p of the n-th tree
cellOf(n, v, p) == IF isObject(Lookup(v, p)) THEN Ref(<<n, p>>) ELSE Lookup(v, p)

\* the objects of a tree of new objects holding the value v (what a decoder
\* or a caller's literal creates): one object for each mapping of v
objectsOf(n, v) ==
  [r \in {<<n, p>> : p \in {q \in PathsIn(v) : isObject(Lookup(v, q))}} |->
     [k \in DOMAIN Lookup(v, r[2]).obj |-> cellOf(n, v, r[2] \o <<k>>)]]

alloc(h, v) ==
  IF ~isObject(v) THEN Made(h, v)
  ELSE Made(objectsOf(fresh(h), v) @@ h, Ref(<<fresh(h), <<>>>>))

RECURSIVE deepMergeH(_, _, _), mergeEntries(_, _, _, _)

\* out[k] = the cell a nested merge returned
assigned(m, out, k) == store(m.heap, out, k, m.val)

\* const bv = out[k]; out[k] = isObject(bv) && isObject(v) ? deepMerge(bv, v) : v
mergeEntry(h, out, k, v) ==
  IF k \in DOMAIN h[out] /\ IsRef(h[out][k]) /\ IsRef(v)
  THEN assigned(deepMergeH(h, h[out][k], v), out, k)
  ELSE store(h, out, k, v)

\* for (const [k, v] of Object.entries(override)) ...; return out
mergeEntries(h, out, entries, keys) ==
  IF keys = {} THEN Made(h, Ref(out))
  ELSE mergeEntries(mergeEntry(h, out, CHOOSE k \in keys : TRUE, entries[CHOOSE k \in keys : TRUE]),
                    out, entries, keys \ {CHOOSE k \in keys : TRUE})

\* a merge that writes the entries of override into base itself
deepMergeInPlace(h, base, override) ==
  IF ~IsRef(base) \/ ~IsRef(override) THEN Made(h, Coalesce(override, base))
  ELSE mergeEntries(h, base.ref, h[override.ref], DOMAIN h[override.ref])

\* deepMerge(base, override) on the heap: the heap after the call and the
\* cell returned
deepMergeH(h, base, override) ==
  IF ~IsRef(base) \/ ~IsRef(override) THEN Made(h, Coalesce(override, base))
  ELSE mergeEntries(new(h, h[base.ref]), <<fresh(h), <<>>>>, h[override.ref],
                    DOMAIN h[override.ref])

(***************************************************************************)
(* SpecPure: deepMerge called on objects of the heap                       *)
(***************************************************************************)
\* base and override are two trees, or one and the same object
TwoTrees(b, o) == [b |-> alloc(<<>>, b), o |-> alloc(alloc(<<>>, b).heap, o)]

ArgumentsOnHeap ==
  {[heap |-> TwoTrees(b, o).o.heap, base |-> TwoTrees(b, o).b.val, override |-> TwoTrees(b, o).o.val] :
     b, o \in MergeValues}
  \cup {[heap |-> alloc(<<>>, b).heap, base |-> alloc(<<>>, b).val, override |-> alloc(<<>>, b).val] :
          b \in MergeValues}

InitPure ==
  /\ variant = "layered"
  /\ ancestors = CwdHasConfig
  /\ fs = <<>>
  /\ sysenv = NoSysEnv
  /\ penv = <<>>
  /\ cachedConfig = Null
  /\ returned = FALSE
  /\ DbIdle
  /\ \E a \in ArgumentsOnHeap :
       /\ heap = a.heap
       /\ lastCall = [op |-> "arguments", base |-> a.base, override |-> a.override]

merged(m, before, base, override) ==
  /\ heap' = m.heap
  /\ lastCall' = [op |-> "deepMerge", base |-> base, override |-> override, out |-> m.val,
                  before |-> before]

DeepMerge ==
  /\ lastCall.op = "arguments"
  /\ merged(deepMergeH(heap, lastCall.base, lastCall.override), heap, lastCall.base,
            lastCall.override)
  /\ UNCHANGED <<variant, ancestors, fs, sysenv, penv, cachedConfig, returned, globalState, pools, conns, tasks>>

NextPure == DeepMerge

SpecPure == InitPure /\ [][NextPure]_vars

\* the heap computes the merge of the trees
HeapMergeAgrees ==
  lastCall.op = "deepMerge" =>
    Content(heap, lastCall.out)
      = deepMerge(Content(lastCall.before, lastCall.base),
                  Content(lastCall.before, lastCall.override))

\* C16: deepMerge is pure with respect to its arguments: after the call
\* every object that existed before it, the arguments and all that is below
\* them, has the members it had, so base and override have their contents
\* of before the call at every depth.
C16_ArgumentsUntouched ==
  lastCall.op = "deepMerge" =>
    /\ \A r \in DOMAIN lastCall.before : r \in DOMAIN heap /\ heap[r] = lastCall.before[r]
    /\ Content(heap, lastCall.base) = Content(lastCall.before, lastCall.base)
    /\ Content(heap, lastCall.override) = Content(lastCall.before, lastCall.override)

\* two mappings that share a key holding mappings, merged into a new object
\* that differs from both
C16_Witness ==
  /\ lastCall.op = "deepMerge"
  /\ IsRef(lastCall.base) /\ IsRef(lastCall.override) /\ IsRef(lastCall.out)
  /\ lastCall.base # lastCall.override
  /\ lastCall.out.ref \notin DOMAIN lastCall.before
  /\ \E k \in DOMAIN heap[lastCall.base.ref] \cap DOMAIN heap[lastCall.override.ref] :
       /\ IsRef(heap[lastCall.base.ref][k]) /\ IsRef(heap[lastCall.override.ref][k])
       /\ heap[lastCall.out.ref][k] \notin {heap[lastCall.base.ref][k], heap[lastCall.override.ref][k]}
  /\ Content(heap, lastCall.out) # Content(heap, lastCall.base)
  /\ Content(heap, lastCall.out) # Content(heap, lastCall.override)

(***************************************************************************)
(* SpecCache: configFor on the heap.  The cache slot holds a reference to  *)
(* the composed configuration; the objects no caller holds any more are    *)
(* dropped after each call.                                                *)
(***************************************************************************)
\* the composed tree as new objects: what loadConfig stores and returns
storedH(m) == [out |-> [ok |-> m.val], heap |-> m.heap, cache |-> m.val]
resolvedH(h, r) ==
  IF IsThrow(r) THEN [out |-> r, heap |-> h, cache |-> cachedConfig] ELSE storedH(alloc(h, r.ok))

\* loadConfig() on the heap
loadConfigH(h, listing) ==
  IF Truthy(cachedConfig) THEN [out |-> [ok |-> cachedConfig], heap |-> h, cache |-> cachedConfig]
  ELSE resolvedH(h, resolve(NoOptions, listing))

\* c[k] of a cell that is not nullish
getH(h, c, k) == IF IsRef(c) THEN getOwn(h[c.ref], k) ELSE Get(c, k)

\* c ?? {}
orEmptyH(h, c) == IF Nullish(c) THEN Made(new(h, <<>>), Ref(<<fresh(h), <<>>>>)) ELSE Made(h, c)

\* (cfg.modules ?? {})[moduleName] ?? {}
rawOf(m, name) == orEmptyH(m.heap, getH(m.heap, m.val, name))
rawH(h, cfg, name) == rawOf(orEmptyH(h, getH(h, cfg, k_modules)), name)

\* a merge of the defaults into the resolved data itself
mergedOfInPlace(h, d, raw) ==
  IF Truthy(d) THEN deepMergeInPlace(h, raw, d) ELSE Made(h, raw)

\* defaults ? deepMerge(defaults, raw ?? {}) : (raw ?? {})
mergedOfH(h, d, raw) ==
  IF Truthy(d) THEN deepMergeH(h, d, raw) ELSE Made(h, raw)

mergedForH(m, d) == mergedOfH(m.heap, d, m.val)

\* schema.parse(merged): reads the tree below merged and builds its result
\* of new objects
parsedH(m, cache) ==
  [out |-> parseCoreConfig(Content(m.heap, m.val)), validated |-> <<Content(m.heap, m.val)>>,
   heap |-> m.heap, cache |-> cache]

\* configFor after its call of loadConfig
loadedH(c, d, name) ==
  IF IsThrow(c.out) THEN [out |-> c.out, validated |-> <<>>, heap |-> c.heap, cache |-> c.cache]
  ELSE parsedH(mergedForH(rawH(c.heap, c.out.ok, name), d), c.cache)

\* configFor(name, CoreConfigSchema, defaults), the defaults being the
\* caller's objects
configForH(d, name, listing) == loadedH(loadConfigH(d.heap, listing), d.val, name)

\* the objects still held: those below the cache slot
Kept(h, c) == [r \in Reach(h, c) |-> h[r]]

configForHCall(r, name, defaults) ==
  /\ cachedConfig' = r.cache
  /\ heap' = Kept(r.heap, r.cache)
  /\ returned' = (returned \/ Truthy(r.cache))
  /\ lastCall' = [op |-> "configFor", name |-> <<name>>, defaults |-> defaults, out |-> r.out,
                  validated |-> r.validated, cached |-> cachedConfig, before |-> heap]
  /\ UNCHANGED <<variant, ancestors, fs, sysenv, penv, globalState, pools, conns, tasks>>

ConfigForOnHeap ==
  \E name \in ModuleNames, defaults \in DefaultsChoices :
    \E listing \in Listings(NoOptions) :
      configForHCall(configForH(alloc(heap, OrElse(defaults, Undef)), name, listing),
                     name, defaults)

InitCache ==
  /\ variant \in {"layered", "single"}
  /\ ancestors = CwdHasConfig
  /\ fs \in SpecFs(variant)
  /\ sysenv = NoSysEnv
  /\ penv \in SpecPenv
  /\ cachedConfig = Null
  /\ returned = FALSE
  /\ DbIdle
  /\ heap = <<>>
  /\ lastCall = NoCall

NextCache == ConfigForOnHeap

SpecCache == InitCache /\ [][NextCache]_vars

\* the last call was a configFor that found the cache populated
OnPopulatedCache == lastCall.op = "configFor" /\ Truthy(lastCall.cached)

C12_FailsValidation == OnPopulatedCache /\ IsThrow(lastCall.out)

\* a configFor on the populated cache without defaults
C12_WithoutDefaults == OnPopulatedCache /\ lastCall.defaults = <<>> /\ ~IsThrow(lastCall.out)

\* the heap hands schema.parse the value configFor computes from the trees
HeapConfigForAgrees ==
  OnPopulatedCache =>
    lastCall.validated
      = <<mergedFor(Content(lastCall.before, lastCall.cached), lastCall.name[1], lastCall.defaults)>>

(***************************************************************************)
(* SpecContext: the resolution context.  Every directory a call may        *)
(* resolve holds a base file that names it, so the composed configuration  *)
(* shows which directory, tier and node the call used.                     *)
(***************************************************************************)
EnvDir == [named |-> "env"]
k_dir == <<"d", "i", "r">>
n_Prod == <<"P", "r", "o", "d">>
n_N1 == <<"N", "1">>

BaseIn(v, d) == File(d, "", IF v = "layered" THEN n_base \o x_yaml ELSE n_config \o x_json5)
Marked(m) == Doc(Obj(k_dir :> m))

\* the working directory holds config, its grandparent does, or none does
ContextChains == {<<"dir", "none">>, <<"none", "none", "dir">>, <<"none", "file">>}

ContextFs(v, anc) ==
  (BaseIn(v, OptDir) :> Marked(Str(<<"o">>))) @@ (BaseIn(v, EnvDir) :> Marked(Str(<<"e">>)))
    @@ [p \in {BaseIn(v, [anc |-> i - 1]) : i \in {j \in DOMAIN anc : anc[j] = "dir"}} |->
          Marked(Num(p.dir.anc))]

ContextEnvs ==
  [TRP_ENV : {<<>>, <<n_QA>>}, TRP_NODE : {<<>>, <<n_sv1>>}, TRP_CONFIG_DIR : {<<>>, <<EnvDir>>}]

ContextOptions ==
  IF variant = "layered"
  THEN [configDir : {<<>>, <<OptDir>>}, env : {<<>>, <<n_Prod>>}, node : {<<>>, <<n_N1>>},
        envPrefix : {<<>>}]
  ELSE [configDir : {<<>>, <<OptDir>>}, loadPerModuleFiles : {<<>>}, loadSecrets : {<<>>}]

InitContext ==
  /\ variant \in {"layered", "single"}
  /\ ancestors \in ContextChains
  /\ fs = ContextFs(variant, ancestors)
  /\ sysenv \in ContextEnvs
  /\ penv = <<>>
  /\ cachedConfig = Null
  /\ returned = FALSE
  /\ DbIdle
  /\ heap = <<>>
  /\ lastCall = NoCall

\* the first call of loadConfig(opts) of the process
LoadConfigFirst ==
  /\ ~Truthy(cachedConfig)
  /\ \E opts \in ContextOptions :
       \E listing \in Listings(opts) :
         loadConfigCall(loadConfig(opts, listing), opts, listing)

NextContext == LoadConfigFirst

SpecContext == InitContext /\ [][NextContext]_vars

\* the first available of an option, an environment variable and a fallback
FirstAvailable(option, variable, fallback) ==
  IF option # <<>> THEN option[1] ELSE IF variable # <<>> THEN variable[1] ELSE fallback

\* the nearest of the working directory and its first five ancestors that
\* holds a config directory
Discovered == {d \in 0..5 : d + 1 \in DOMAIN ancestors /\ ancestors[d + 1] = "dir"}
NearestDiscovered == CHOOSE d \in Discovered : \A e \in Discovered : d <= e

\* what the base file of the directory of the call says; nothing is at
\* <cwd>/config when the discovery fails
ExpectedMark ==
  IF lastCall.opts.configDir # <<>> THEN Str(<<"o">>)
  ELSE IF sysenv.TRP_CONFIG_DIR # <<>> THEN Str(<<"e">>)
  ELSE IF Discovered # {} THEN Num(NearestDiscovered)
  ELSE Undef

ResolvingCall == lastCall.op = "loadConfig" /\ lastCall.io /\ ~IsThrow(lastCall.out)

C21_AllFallbacks ==
  /\ ResolvingCall /\ variant = "layered"
  /\ lastCall.opts = NoOptionsLayered /\ sysenv = NoSysEnv
  /\ ancestors = <<"none", "file">>
  /\ lastCall.out.ok = Seed(k_dev, toLowerCase(HostName))

(***************************************************************************)
(* The cache slot over the life of the process                             *)
(***************************************************************************)
\* C22: the cache slot is empty or holds the fully composed configuration;
\* every caller that is given a configuration is given the stored one, never
\* an intermediate; and once a value is stored the slot holds that value
\* for ever, whatever is called and whatever happens to the files and the
\* environment.
C22_CacheFixedOnceStored ==
  [][/\ cachedConfig # Null => cachedConfig' = cachedConfig
     /\ (lastCall'.op # "none" /\ ~IsThrow(lastCall'.loaded))
          => lastCall'.loaded = [ok |-> cachedConfig']]_vars

(***************************************************************************)
(* Two per-module files of one module                                      *)
(***************************************************************************)
\* the pairs of listed files that give mappings for the same module, the
\* first listed before the second
SameModulePairs ==
  {pr \in ModuleFiles \X ModuleFiles :
     /\ pr[1] < pr[2]
     /\ moduleKey(pr[1]) = moduleKey(pr[2])
     /\ isObject(moduleData(pr[1])) /\ isObject(moduleData(pr[2]))}

\* at the path p under modules[name] the later file decides where it sets
\* the path, the earlier file where only it does
BothMerged(early, late, res, p) ==
  IF Sets(late, p)
  THEN IF isObject(Lookup(late, p)) THEN isObject(Lookup(res, p))
       ELSE Lookup(res, p) = Lookup(late, p)
  ELSE isObject(Lookup(early, p)) \/ Lookup(res, p) = Lookup(early, p)

\* C23: when the modules directory holds two files of the same module name
\* with different accepted extensions, both are merged into modules[name]:
\* a key only one of them sets is present with that file's value, and a key
\* both set has the value of the file listed later (the secrets file and the
\* override variables, which are applied afterwards, aside).
C23_BothFilesMerged ==
  Loaded =>
    \A pr \in SameModulePairs :
      \A p \in (PathsIn(moduleData(pr[1])) \cup PathsIn(moduleData(pr[2]))) \ {<<>>} :
        \/ SecretsSet(moduleKey(pr[1]) \o p)
        \/ EnvTouches(moduleKey(pr[1]) \o p)
        \/ BothMerged(moduleData(pr[1]), moduleData(pr[2]),
                      Lookup(lastCall.out.ok, moduleKey(pr[1])), p)

\* foo.json = {limit:6, z:1} listed before foo.yaml = {limit:5}
C23_Witness ==
  /\ Loaded /\ variant = "layered"
  /\ lastCall.listing = <<n_foo \o x_json, n_foo \o x_yaml>>
  /\ SameModulePairs = {<<1, 2>>}
  /\ moduleData(1) = Obj((k_limit :> Num(6)) @@ (k_z :> Num(1)))
  /\ moduleData(2) = Obj(k_limit :> Num(5))
  /\ Lookup(lastCall.out.ok, <<k_modules, n_foo, k_limit>>) = Num(5)
  /\ Lookup(lastCall.out.ok, <<k_modules, n_foo, k_z>>) = Num(1)

(***************************************************************************)
(* The shape of the composed configuration                                 *)
(***************************************************************************)
\* C25: whatever the decodable content of the source files, the value
\* loadConfig returns and caches is a mapping with the keys env, node and
\* modules, and modules is itself a mapping.
C25_ComposedIsSeededMapping ==
  (lastCall.op = "loadConfig" /\ ~IsThrow(lastCall.out)) =>
    /\ isObject(lastCall.out.ok)
    /\ {k_env, k_node, k_modules} \subseteq DOMAIN lastCall.out.ok.obj
    /\ isObject(lastCall.out.ok.obj[k_modules])
    /\ cachedConfig = lastCall.out.ok

(***************************************************************************)
(* SpecOverrides: applyEnvOverrides on the heap                            *)
(***************************************************************************)
\* {...c}
spreadH(h, c) == IF IsRef(c) THEN h[c.ref] ELSE Spread(c)

RECURSIVE writeEntryH(_, _, _, _)

\* cursor[key] = {}; cursor = cursor[key]
intoNew(h, cursor, key, parts, val) ==
  writeEntryH(store(new(h, <<>>), cursor, key, Ref(<<fresh(h), <<>>>>)), <<fresh(h), <<>>>>,
              Tail(parts), val)

\* cursor[key] = cursor[key] && isObject(cursor[key]) ? cursor[key] : {};
\* cursor = cursor[key]
descend(h, cursor, key, child, parts, val) ==
  IF IsRef(child) THEN writeEntryH(store(h, cursor, key, child), child.ref, Tail(parts), val)
  ELSE intoNew(h, cursor, key, parts, val)

writeSegment(h, cursor, key, parts, val) ==
  IF Len(parts) = 1 THEN store(h, cursor, key, coerce(val))
  ELSE descend(h, cursor, key, getOwn(h[cursor], key), parts, val)

\* the inner loop of applyEnvOverrides from the object cursor on
writeEntryH(h, cursor, parts, val) == writeSegment(h, cursor, segmentKey(Head(parts)), parts, val)

RECURSIVE writeAllH(_, _, _)
writeAllH(h, out, entries) ==
  IF entries = <<>> THEN h
  ELSE writeAllH(writeEntryH(h, out, Head(entries).parts, Head(entries).val), out, Tail(entries))

\* if (!entries.length) return cfg; const out = {...cfg}; ...; return out
overrideWithH(h, cfg, entries) ==
  IF entries = <<>> THEN Made(h, cfg)
  ELSE Made(writeAllH(new(h, spreadH(h, cfg)), <<fresh(h), <<>>>>, entries),
            Ref(<<fresh(h), <<>>>>))

applyEnvOverridesH(h, cfg, prefix, env) == overrideWithH(h, cfg, overrideEntries(env, prefix))

InitOverrides ==
  /\ variant = "layered"
  /\ ancestors = CwdHasConfig
  /\ fs = <<>>
  /\ sysenv = NoSysEnv
  /\ penv \in OverrideSeqs
  /\ cachedConfig = Null
  /\ returned = FALSE
  /\ DbIdle
  /\ \E c \in OverrideConfigs :
       /\ heap = alloc(<<>>, c).heap
       /\ lastCall = [op |-> "arguments", cfg |-> alloc(<<>>, c).val, prefix |-> DefaultPrefix]

overridden(m, before, cfg, prefix) ==
  /\ heap' = m.heap
  /\ lastCall' = [op |-> "applyEnvOverrides", cfg |-> cfg, prefix |-> prefix, out |-> m.val,
                  before |-> before]

\* applyEnvOverrides(cfg, prefix) is called on a tree of the heap
ApplyEnvOverridesOnHeap ==
  /\ lastCall.op = "arguments"
  /\ overridden(applyEnvOverridesH(heap, lastCall.cfg, lastCall.prefix, penv), heap,
                lastCall.cfg, lastCall.prefix)
  /\ UNCHANGED <<variant, ancestors, fs, sysenv, penv, cachedConfig, returned, globalState, pools, conns, tasks>>

NextOverrides == ApplyEnvOverridesOnHeap

SpecOverrides == InitOverrides /\ [][NextOverrides]_vars

\* the heap computes the tree applyEnvOverrides returns
HeapOverridesAgree ==
  Applied =>
    Content(heap, lastCall.out)
      = applyEnvOverrides(Content(lastCall.before, lastCall.cfg), lastCall.prefix, penv)

\* C26: applyEnvOverrides does not modify the tree it is given: after a call
\* in which a variable matched, the input tree has the contents it had
\* before the call at every depth, the nested mappings on an overridden path
\* included, and the overrides show in the returned tree only.
C26_InputTreeUntouched ==
  (Applied /\ OverrideVars # {}) =>
    /\ Content(heap, lastCall.cfg) = Content(lastCall.before, lastCall.cfg)
    /\ \A r \in DOMAIN lastCall.before : heap[r] = lastCall.before[r]

\* an override at the top level only leaves the input as it was
C26_TopLevelOnly ==
  (Applied /\ OverrideVars # {} /\ \A i \in OverrideVars : Len(segmentsOf(i)) = 1) =>
    Content(heap, lastCall.cfg) = Content(lastCall.before, lastCall.cfg)

(***************************************************************************)
(* The first call fixes the configuration                                  *)
(***************************************************************************)
\* a call of one of the three operations that read the cache
ReadsConfig == LoadConfig \/ ConfigFor \/ GetMySqlConfig

\* the call answers from the configuration cfg that was stored before it
AnswersFrom(cfg) ==
  /\ ~lastCall'.io
  /\ lastCall'.loaded = [ok |-> cfg]
  /\ cachedConfig' = cfg
  /\ lastCall'.op = "getMySqlConfig" => lastCall'.validated = <<mysqlOf(cfg)>>

\* C27: once one of loadConfig, configFor and getMySqlConfig has returned,
\* every later call of any of them, whatever options it passes (the
\* configDir of getMySqlConfig included), reads nothing and works on the
\* configuration the first call stored; getMySqlConfig validates db.mysql
\* of that configuration.
C27_FirstCallFixesConfig ==
  [][(returned /\ ReadsConfig) => AnswersFrom(cachedConfig)]_vars

\* the same for a stored configuration that is truthy
C27_FixedWhenTruthy ==
  [][(returned /\ Truthy(cachedConfig) /\ ReadsConfig) => AnswersFrom(cachedConfig)]_vars

(***************************************************************************)
(* The db package: the shared pool, its connections and the calls in       *)
(* flight.  A step is what runs between two awaits.                        *)
(***************************************************************************)
MaxTasks == 2

Schemas == {"schemaA", "schemaB"}
FnResults == {Num(1), Undef}

\* a pool as createPool returns it; ended: end() has been called on it
NewPool == [ended |-> FALSE]

\* createPoolFromConfig(config): MySqlEnvSchema.parse throws on an invalid
\* environment, otherwise the pool is created
createPoolFromConfig(gs, ps, valid) ==
  IF valid
  THEN [globalState |-> [gs EXCEPT !.pool = Len(ps) + 1], pools |-> Append(ps, NewPool),
        out |-> [ok |-> Len(ps) + 1]]
  ELSE [globalState |-> gs, pools |-> ps, out |-> [throw |-> "ZodError"]]

\* getPool(config)
getPool(gs, ps, valid) ==
  IF gs.pool = 0 THEN createPoolFromConfig(gs, ps, valid)
  ELSE [globalState |-> gs, pools |-> ps, out |-> [ok |-> gs.pool]]

getOrCreateDrizzleCache(gs) ==
  IF gs.drizzleBySchema = <<>> THEN [gs EXCEPT !.drizzleBySchema = <<<<>>>>] ELSE gs

\* drizzle(pool, {schema}); cache.set(schema, db); return db
wrapped(g, schema) ==
  IF IsThrow(g.out) THEN g
  ELSE [globalState |-> [g.globalState EXCEPT !.drizzleBySchema =
                           <<(schema :> [pool |-> g.out.ok, schema |-> schema])
                               @@ g.globalState.drizzleBySchema[1]>>],
        pools |-> g.pools,
        out |-> [ok |-> [pool |-> g.out.ok, schema |-> schema]]]

\* dbFor(schema, cfg) on the state gs in which the cache map exists
dbForCached(gs, ps, schema, valid) ==
  IF schema \in DOMAIN gs.drizzleBySchema[1]
  THEN [globalState |-> gs, pools |-> ps, out |-> [ok |-> gs.drizzleBySchema[1][schema]]]
  ELSE wrapped(getPool(gs, ps, valid), schema)

dbFor(gs, ps, schema, valid) == dbForCached(getOrCreateDrizzleCache(gs), ps, schema, valid)

\* a call of an async function: where it waits, what it holds, how its
\* promise settled
Task(op, pc, pool) ==
  [op |-> op, pc |-> pc, pool |-> pool, conn |-> 0, fn |-> "notCalled", out |-> <<>>,
   err |-> <<>>, swallowed |-> <<>>, outcome |-> <<>>]

settled(task, outcome) == [task EXCEPT !.pc = "settled", !.outcome = <<outcome>>]

\* finally { conn.release() } skipped when the body threw
finallyReleaseOnSuccess(calls, outcome) ==
  IF IsThrow(outcome) THEN calls ELSE Append(calls, "release")

\* finally { conn.release() }
finallyRelease(calls, outcome) == Append(calls, "release")

\* the catch block without its inner try: a failing rollback replaces e
rethrownUnguarded(e, rollbackError) == IF rollbackError = <<>> THEN e ELSE rollbackError[1]

\* try { await conn.rollback() } catch {} throw e
rethrown(e, rollbackError) == e

ConfigIdle == UNCHANGED <<variant, ancestors, fs, sysenv, penv, cachedConfig, returned, heap>>

InitDb ==
  /\ variant = "layered"
  /\ ancestors = CwdHasConfig
  /\ fs = <<>>
  /\ sysenv = NoSysEnv
  /\ penv = <<>>
  /\ cachedConfig = Null
  /\ returned = FALSE
  /\ heap = <<>>
  /\ lastCall = [op |-> "none"]
  /\ DbIdle

\* the effect of a call of getPool inside an operation
pooled(g) == globalState' = g.globalState /\ pools' = g.pools

\* the call made on connection c is recorded
called(c, name) == conns' = [conns EXCEPT ![c].calls = Append(@, name)]

\* task t settles with outcome, its connection released in the finally block
releasedAndSettled(t, outcome) ==
  /\ conns' = [conns EXCEPT ![tasks[t].conn].calls = finallyRelease(@, outcome)]
  /\ tasks' = [tasks EXCEPT ![t] = settled(@, outcome)]

\* a caller calls getPool()
GetPool ==
  /\ \E valid \in BOOLEAN :
       /\ pooled(getPool(globalState, pools, valid))
       /\ lastCall' = [op |-> "getPool", out |-> getPool(globalState, pools, valid).out]
  /\ UNCHANGED <<conns, tasks>>
  /\ ConfigIdle

\* a caller calls dbFor(schema)
DbFor ==
  /\ \E schema \in Schemas, valid \in BOOLEAN :
       /\ pooled(dbFor(globalState, pools, schema, valid))
       /\ lastCall' = [op |-> "dbFor", schema |-> schema,
                       out |-> dbFor(globalState, pools, schema, valid).out]
  /\ UNCHANGED <<conns, tasks>>
  /\ ConfigIdle

\* getPool().getConnection() is called, or getPool throws
started(op, g) ==
  /\ pooled(g)
  /\ tasks' = Append(tasks, IF IsThrow(g.out) THEN settled(Task(op, "start", 0), g.out)
                            ELSE Task(op, "getConnection", g.out.ok))

\* a caller calls txFor(schema, fn)
TxFor ==
  /\ Len(tasks) < MaxTasks
  /\ \E valid \in BOOLEAN : started("txFor", getPool(globalState, pools, valid))
  /\ UNCHANGED <<conns, lastCall>>
  /\ ConfigIdle

\* a caller calls withConn(fn)
WithConn ==
  /\ Len(tasks) < MaxTasks
  /\ \E valid \in BOOLEAN : started("withConn", getPool(globalState, pools, valid))
  /\ UNCHANGED <<conns, lastCall>>
  /\ ConfigIdle

\* the connection arrives: txFor calls conn.beginTransaction(), withConn
\* calls fn(connection)
obtained(t) ==
  /\ conns' = Append(conns, [pool |-> tasks[t].pool,
                             calls |-> IF tasks[t].op = "txFor" THEN <<"beginTransaction">>
                                       ELSE <<>>])
  /\ tasks' = [tasks EXCEPT ![t] =
                 IF @.op = "txFor" THEN [@ EXCEPT !.conn = Len(conns) + 1, !.pc = "beginTransaction"]
                 ELSE [@ EXCEPT !.conn = Len(conns) + 1, !.pc = "fn", !.fn = "called"]]

\* the promise of getConnection settles; a pool on which end() was called
\* hands out no connection
GetConnectionSettles ==
  /\ \E t \in DOMAIN tasks :
       /\ tasks[t].pc = "getConnection"
       /\ \E ok \in (IF pools[tasks[t].pool].ended THEN {FALSE} ELSE BOOLEAN) :
            IF ok THEN obtained(t)
            ELSE /\ tasks' = [tasks EXCEPT ![t] = settled(@, [throw |-> "getConnection"])]
                 /\ UNCHANGED conns
  /\ UNCHANGED <<globalState, pools, lastCall>>
  /\ ConfigIdle

\* catch (e) { try { await conn.rollback() ...
caught(t, e) ==
  /\ called(tasks[t].conn, "rollback")
  /\ tasks' = [tasks EXCEPT ![t] =
                 [@ EXCEPT !.pc = "rollback", !.err = <<e>>,
                           !.fn = IF e = "fn" THEN "rejected" ELSE @]]

\* the promise of beginTransaction settles
BeginTransactionSettles ==
  /\ \E t \in DOMAIN tasks :
       /\ tasks[t].pc = "beginTransaction"
       /\ \E ok \in BOOLEAN :
            IF ok THEN /\ tasks' = [tasks EXCEPT ![t] = [@ EXCEPT !.pc = "fn", !.fn = "called"]]
                       /\ UNCHANGED conns
            ELSE caught(t, "beginTransaction")
  /\ UNCHANGED <<globalState, pools, lastCall>>
  /\ ConfigIdle

\* const out = await fn(txDb, conn); await conn.commit()
resolvedInTx(t, r) ==
  /\ called(tasks[t].conn, "commit")
  /\ tasks' = [tasks EXCEPT ![t] = [@ EXCEPT !.pc = "commit", !.fn = "resolved", !.out = <<r>>]]

\* the promise of the callback settles
FnSettles ==
  /\ \E t \in DOMAIN tasks :
       /\ tasks[t].pc = "fn"
       /\ \/ \E r \in FnResults :
               IF tasks[t].op = "txFor" THEN resolvedInTx(t, r)
               ELSE releasedAndSettled(t, [ok |-> r])
          \/ IF tasks[t].op = "txFor" THEN caught(t, "fn")
             ELSE releasedAndSettled(t, [throw |-> "fn"])
  /\ UNCHANGED <<globalState, pools, lastCall>>
  /\ ConfigIdle

\* the promise of commit settles: return out, or the catch block
CommitSettles ==
  /\ \E t \in DOMAIN tasks :
       /\ tasks[t].pc = "commit"
       /\ \E ok \in BOOLEAN :
            IF ok THEN releasedAndSettled(t, [ok |-> tasks[t].out[1]])
            ELSE caught(t, "commit")
  /\ UNCHANGED <<globalState, pools, lastCall>>
  /\ ConfigIdle

\* the promise of rollback settles, its rejection is swallowed: throw e
RollbackSettles ==
  /\ \E t \in DOMAIN tasks :
       /\ tasks[t].pc = "rollback"
       /\ \E rollbackError \in {<<>>, <<"rollback">>} :
            /\ conns' = [conns EXCEPT ![tasks[t].conn].calls =
                           finallyRelease(@, [throw |-> rethrown(tasks[t].err[1], rollbackError)])]
            /\ tasks' = [tasks EXCEPT ![t] =
                           settled([@ EXCEPT !.swallowed = rollbackError],
                                   [throw |-> rethrown(@.err[1], rollbackError)])]
  /\ UNCHANGED <<globalState, pools, lastCall>>
  /\ ConfigIdle

\* a caller calls close(): without a pool it returns, otherwise it calls
\* globalState.pool.end() and waits
Close ==
  /\ Len(tasks) < MaxTasks
  /\ IF globalState.pool = 0
     THEN /\ tasks' = Append(tasks, settled(Task("close", "start", 0), [ok |-> Undef]))
          /\ UNCHANGED pools
     ELSE /\ tasks' = Append(tasks, Task("close", "end", globalState.pool))
          /\ pools' = [pools EXCEPT ![globalState.pool].ended = TRUE]
  /\ UNCHANGED <<globalState, conns, lastCall>>
  /\ ConfigIdle

\* the promise of end() settles: globalState.pool = undefined;
\* globalState.drizzleBySchema = undefined, or the rejection leaves close
EndSettles ==
  /\ \E t \in DOMAIN tasks :
       /\ tasks[t].pc = "end"
       /\ \E ok \in BOOLEAN :
            IF ok THEN /\ globalState' = NoGlobalState
                       /\ tasks' = [tasks EXCEPT ![t] = settled(@, [ok |-> Undef])]
            ELSE /\ tasks' = [tasks EXCEPT ![t] = settled(@, [throw |-> "end"])]
                 /\ UNCHANGED globalState
  /\ UNCHANGED <<pools, conns, lastCall>>
  /\ ConfigIdle

NextDb ==
  \/ GetPool \/ DbFor \/ TxFor \/ WithConn \/ Close
  \/ GetConnectionSettles \/ BeginTransactionSettles \/ FnSettles \/ CommitSettles
  \/ RollbackSettles \/ EndSettles

SpecDb == InitDb /\ [][NextDb]_vars

(***************************************************************************)
(* Properties of txFor, withConn and close                                 *)
(***************************************************************************)
Has(seq, x) == \E i \in DOMAIN seq : seq[i] = x
Count(seq, x) == Cardinality({i \in DOMAIN seq : seq[i] = x})

\* the calls made on the connection task t holds
CallsOf(t) == conns[tasks[t].conn].calls

Settled(t) == tasks[t].pc = "settled"
Outcome(t) == tasks[t].outcome[1]

\* the calls of txFor that have their connection
Transactions == {t \in DOMAIN tasks : tasks[t].op = "txFor" /\ tasks[t].conn # 0}

\* no commit is called once rollback has been called
NoCommitAfterRollback(calls) ==
  \A i, j \in DOMAIN calls : (calls[i] = "rollback" /\ calls[j] = "commit") => j < i

\* C24: txFor calls commit exactly when fn has resolved, at most once, and
\* resolves only after a successful commit, with the value fn resolved to;
\* when beginTransaction, fn or commit fails it calls rollback, calls no
\* commit after that, and rejects with the error of the step that failed,
\* whether the rollback succeeds or fails.
C24_CommitOrRollback ==
  \A t \in Transactions :
    /\ Has(CallsOf(t), "commit") <=> tasks[t].fn = "resolved"
    /\ Count(CallsOf(t), "commit") <= 1
    /\ (Settled(t) /\ ~IsThrow(Outcome(t))) =>
         /\ tasks[t].fn = "resolved"
         /\ Outcome(t) = [ok |-> tasks[t].out[1]]
         /\ ~Has(CallsOf(t), "rollback")
    /\ tasks[t].err # <<>> =>
         /\ tasks[t].err[1] \in {"beginTransaction", "fn", "commit"}
         /\ Count(CallsOf(t), "rollback") = 1
         /\ NoCommitAfterRollback(CallsOf(t))
         /\ Settled(t) => Outcome(t) = [throw |-> tasks[t].err[1]]
    /\ (Settled(t) /\ IsThrow(Outcome(t))) => tasks[t].err # <<>>

\* one transaction has resolved with fn's result, another has rejected with
\* the error of its commit although its rollback failed too
C24_Witness ==
  \E s, t \in Transactions :
    /\ Settled(s) /\ Outcome(s) = [ok |-> Num(1)] /\ CallsOf(s) = <<"beginTransaction", "commit", "release">>
    /\ Settled(t) /\ Outcome(t) = [throw |-> "commit"] /\ tasks[t].swallowed = <<"rollback">>

\* the calls of txFor and withConn
Borrowers == {t \in DOMAIN tasks : tasks[t].op \in {"txFor", "withConn"}}

\* C28: a connection obtained by txFor or withConn is released exactly once,
\* as the last call made on it, when the promise settles (not before), on
\* the success path and on every failure path; a call whose getConnection
\* failed holds no connection and releases nothing, and every connection
\* handed out belongs to exactly one call.
C28_ReleasedExactlyOnce ==
  /\ \A t \in Borrowers :
       IF tasks[t].conn = 0
       THEN Settled(t) => Outcome(t) \in {[throw |-> "getConnection"], [throw |-> "ZodError"]}
       ELSE /\ Count(CallsOf(t), "release") = (IF Settled(t) THEN 1 ELSE 0)
            /\ Settled(t) => CallsOf(t)[Len(CallsOf(t))] = "release"
  /\ \A t \in DOMAIN tasks :
       (Settled(t) /\ Outcome(t) = [throw |-> "getConnection"]) => tasks[t].conn = 0
  /\ \A c \in DOMAIN conns : Cardinality({t \in Borrowers : tasks[t].conn = c}) = 1

\* a transaction whose commit and rollback both failed has released its
\* connection, and a call whose getConnection failed has settled
C28_Witness ==
  \E s, t \in Borrowers :
    /\ Settled(s) /\ tasks[s].swallowed = <<"rollback">>
    /\ CallsOf(s) = <<"beginTransaction", "commit", "rollback", "release">>
    /\ Settled(t) /\ Outcome(t) = [throw |-> "getConnection"]

\* withConn releases after a failing callback too
C28_WithConnFailure ==
  \E t \in Borrowers :
    /\ tasks[t].op = "withConn" /\ Settled(t) /\ Outcome(t) = [throw |-> "fn"]
    /\ CallsOf(t) = <<"release">>

\* a call of close resolves in this step
CloseResolves ==
  \E t \in DOMAIN tasks' :
    /\ tasks'[t].op = "close" /\ tasks'[t].outcome = <<[ok |-> Undef]>>
    /\ t \in DOMAIN tasks => tasks[t].outcome = <<>>

\* the state the db package has after the step is the one close leaves: the
\* next getPool creates a pool and no database is cached
Cleared ==
  /\ getPool(globalState', pools', TRUE).out.ok \notin DOMAIN pools'
  /\ getOrCreateDrizzleCache(globalState').drizzleBySchema[1] = <<>>

\* C29: however close() interleaves with the other callers, getPool never
\* returns a pool on which end() has been called, dbFor never returns a
\* database bound to such a pool, and when close() resolves the next getPool
\* creates a pool and the per-schema cache is empty.
C29_NoEndedPoolHandedOut ==
  [][/\ (GetPool /\ ~IsThrow(lastCall'.out)) => ~pools'[lastCall'.out.ok].ended
     /\ (DbFor /\ ~IsThrow(lastCall'.out)) => ~pools'[lastCall'.out.ok.pool].ended
     /\ CloseResolves => Cleared]_vars

\* the part of C29 about the state close() leaves when it resolves
C29_ClearedWhenCloseResolves == [][CloseResolves => Cleared]_vars

\* getPool and dbFor hand out a pool on which end() was called only while a
\* close() waits for end() or after end() was rejected
C29_OnlyWhileClosing ==
  [][((GetPool \/ DbFor) /\ ~IsThrow(lastCall'.out) /\
      pools'[IF lastCall'.op = "getPool" THEN lastCall'.out.ok ELSE lastCall'.out.ok.pool].ended)
       => \E t \in DOMAIN tasks :
            /\ tasks[t].op = "close"
            /\ tasks[t].pc = "end" \/ tasks[t].outcome = <<[throw |-> "end"]>>]_vars

====
